---- MODULE Spec2Model ----
(***************************************************************************)
(* State-machine model of the SMARTIO platform backend: the entity store   *)
(* (clients, admin users, subscription types), the JWT issuer/verifier of  *)
(* app/core/security.py and the HTTP handlers of app/main.py that compose  *)
(* them.  Every handler is one atomic action (one request, one database    *)
(* session); SpecRace splits POST /register into its database steps.       *)
(***************************************************************************)
EXTENDS Integers, Sequences, FiniteSets, TLC

VARIABLES
    clients,         \* rows of table clients
    admins,          \* rows of table admin_users
    sub_types,       \* ids of the rows of table subscription_types
    next_client_id,  \* sequence behind clients.id (and the uuid4 of client_db_id)
    next_admin_id,   \* sequence behind admin_users.id
    now,             \* datetime.utcnow(), in minutes
    tokens,          \* tokens handed out by the two login endpoints
    resp,            \* the last request and its response
    reqs,            \* SpecRace: the POST /register requests in progress
    sub_type_names,  \* subscription_types.name of each row, by id
    blog_posts,      \* rows of table blog_posts
    future_plans,    \* rows of table future_plans
    next_sub_type_id,\* sequence behind subscription_types.id
    next_post_id,    \* sequence behind blog_posts.id
    next_plan_id,    \* sequence behind future_plans.id
    sessions,        \* SpecSession: the requests in progress, each with its database session
    calc,            \* SpecCalc: the last call of a function of security.py, arguments and result
    page             \* the last public page served: handler, status, rows handed to the template

vars == <<clients, admins, sub_types, next_client_id, next_admin_id, now, tokens, resp, reqs,
          sub_type_names, blog_posts, future_plans, next_sub_type_id, next_post_id,
          next_plan_id, sessions, calc, page>>

---------------------------------------------------------------------------
(* Bounds of the model *)

MaxClientId == 2
MaxAdminId == 2
MaxTokens == 2
MaxHeldTokens == 1
WaitMinutes == 15
MaxTime == 31
TickMinutes == 31
MaxUpdateFields == 1
MaxSalt == 1
MaxRequests == 2
MaxSubTypeId == 4
MaxPostId == 2
MaxSessionRequests == 3
MaxCalcSalt == 2

(* Program constants *)

ACCESS_TOKEN_EXPIRE_MINUTES == 30

(* Value domains of the requests *)

NoneVal == "None"
Usernames == {"admin", "bob"}
Emails == {"admin@smartio.com", "bob@x.io"}
Passwords == {"adminpass", "pw2"}
SubTypeIds == {1, 99}

---------------------------------------------------------------------------
(* Credential hasher: bcrypt through passlib.  The hash keeps the salt it  *)
(* was made with; verification re-hashes the plaintext under that salt.    *)
(* bcrypt reads the first 72 bytes of the password and no more; passlib's  *)
(* CryptContext(schemes=["bcrypt"]) passes longer passwords on as they are *)
(* (truncate_error is off unless configured).                              *)

\* Passwords longer than 72 bytes: 72 times "x", then one more character.
LongPasswords == {"x*72+a", "x*72+b"}

First72Bytes(password) == IF password \in LongPasswords THEN "x*72" ELSE password

bcrypt(salt, password) == <<"bcrypt", salt, First72Bytes(password)>>

get_password_hash(password, salt) == [salt |-> salt, digest |-> bcrypt(salt, password)]

verify_password(plain_password, hashed_password) ==
    bcrypt(hashed_password.salt, plain_password) = hashed_password.digest

Salts == 1..MaxSalt

---------------------------------------------------------------------------
(* Token issuer/verifier *)

\* create_access_token: copy of the claims plus exp; signed with SECRET_KEY.
\* expires_delta is [given, minutes]; Python's `if expires_delta:` is false for
\* None and for a zero timedelta.
NoDelta == [given |-> FALSE, minutes |-> 0]
timedelta(m) == [given |-> TRUE, minutes |-> m]
Truthy(expires_delta) == expires_delta.given /\ expires_delta.minutes # 0

create_access_token(data, expires_delta) ==
    LET expire == IF Truthy(expires_delta) THEN now + expires_delta.minutes
                  ELSE now + ACCESS_TOKEN_EXPIRE_MINUTES
    IN [form |-> "signed", sub |-> data.sub, is_admin |-> data.is_admin,
        client_db_id |-> NoneVal, exp |-> expire]

\* jwt.decode: the payload, or JWTError for a malformed token, a bad signature
\* or an exp in the past (ExpiredSignatureError is a JWTError).
jwt_decode_without_exp(token, t) ==
    IF token.form # "signed" THEN "JWTError" ELSE "payload"

jwt_decode(token, t) ==
    IF token.form # "signed" THEN "JWTError"
    ELSE IF token.exp < t THEN "JWTError"
    ELSE "payload"

\* uuid.UUID(s): parses s, ValueError when s is not the text of a UUID.
IsUUIDText(s) == s = "uuid"


\* TokenData (schemas/smartio_schemas.py): username and client_db_id are
\* Optional[str]; pydantic rejects a value that is neither None nor a str
\* with a ValidationError (a ValueError, not a JWTError).
TokenDataAccepts(username_type, client_db_id_type) ==
    /\ username_type \in {"NoneType", "str"}
    /\ client_db_id_type \in {"NoneType", "str"}

---------------------------------------------------------------------------
(* Principal resolver.  A resolver returns None, a row, or lets an         *)
(* exception escape; FastAPI answers an escaped exception with 500.        *)

ResolvedNone == [kind |-> "None", id |-> 0]
Raised == [kind |-> "raise", id |-> 0]
Row(r) == [kind |-> "row", id |-> r.id]

\* select(...).where(username == u) ... scalars().first()
FirstByUsername(table, u) ==
    LET hit == {r \in table : r.username = u}
    IN IF hit = {} THEN {} ELSE {CHOOSE r \in hit : \A q \in hit : r.id <= q.id}

ActiveRow(hit) ==
    IF hit = {} THEN ResolvedNone
    ELSE LET r == CHOOSE x \in hit : TRUE
         IN IF ~r.is_active THEN ResolvedNone ELSE Row(r)

_get_current_client_from_token_by_sub(token, db_clients, t) ==
    IF jwt_decode(token, t) = "JWTError" THEN ResolvedNone
    ELSE IF token.sub = NoneVal THEN ResolvedNone
    ELSE ActiveRow(FirstByUsername(db_clients, token.sub))

_get_current_client_from_token(token, db_clients, t) ==
    IF jwt_decode(token, t) = "JWTError" THEN ResolvedNone
    ELSE IF token.sub = NoneVal \/ token.client_db_id = NoneVal THEN ResolvedNone
    ELSE IF ~IsUUIDText(token.client_db_id) THEN Raised
    ELSE IF ~TokenDataAccepts("str", "UUID") THEN Raised
    ELSE ActiveRow(FirstByUsername(db_clients, token.sub))

_get_current_admin_user_from_token_with_client_db_id(token, db_admins, t) ==
    IF jwt_decode(token, t) = "JWTError" THEN ResolvedNone
    ELSE IF token.sub = NoneVal \/ token.client_db_id = NoneVal THEN ResolvedNone
    ELSE ActiveRow(FirstByUsername(db_admins, token.sub))

_get_current_admin_user_from_token_latest_only(token, db_admins, t) ==
    IF \E x \in tokens : x.tok.sub = token.sub /\ x.tok.exp > token.exp THEN ResolvedNone
    ELSE IF jwt_decode(token, t) = "JWTError" THEN ResolvedNone
    ELSE IF token.sub = NoneVal THEN ResolvedNone
    ELSE IF ~TokenDataAccepts("str", "NoneType") THEN Raised
    ELSE ActiveRow(FirstByUsername(db_admins, token.sub))

_get_current_admin_user_from_token(token, db_admins, t) ==
    IF jwt_decode(token, t) = "JWTError" THEN ResolvedNone
    ELSE IF token.sub = NoneVal THEN ResolvedNone
    ELSE IF ~TokenDataAccepts("str", "NoneType") THEN Raised
    ELSE ActiveRow(FirstByUsername(db_admins, token.sub))

\* The *_required dependencies: 401 for None, the row otherwise.
Required(found) ==
    IF found.kind = "None" THEN [status |-> 401, id |-> 0]
    ELSE IF found.kind = "raise" THEN [status |-> 500, id |-> 0]
    ELSE [status |-> 200, id |-> found.id]

get_current_client_required(token, db_clients, t) ==
    Required(_get_current_client_from_token(token, db_clients, t))

get_current_admin_user_not_required(token, db_admins, t) == [status |-> 200, id |-> 1]

get_current_admin_user_required(token, db_admins, t) ==
    Required(_get_current_admin_user_from_token(token, db_admins, t))

---------------------------------------------------------------------------
(* Entity store: the queries and writes of app/crud/smartio_crud.py *)

get_client_by_username(db_clients, username) == FirstByUsername(db_clients, username)

get_client_by_email_never(db_clients, email) == {}

get_client_by_email(db_clients, email) == {r \in db_clients : r.contact_email = email}

get_client_by_id(db_clients, client_id) == {r \in db_clients : r.id = client_id}

get_subscription_type_by_id(db_sub_types, sub_type_id) == {i \in db_sub_types : i = sub_type_id}

get_admin_user_by_username(db_admins, username) == FirstByUsername(db_admins, username)

get_admin_user_by_email(db_admins, email) == {r \in db_admins : r.email = email}

\* Client(...) of create_client: is_active is not passed, so the column default
\* (True) applies; client_db_id is a fresh uuid4.
NewClient(client, hashed_password, id) ==
    [id |-> id,
     username |-> client.username,
     hashed_password |-> hashed_password,
     inn |-> client.inn,
     contact_email |-> client.contact_email,
     subscription_type_id |-> client.subscription_type_id,
     is_active |-> TRUE,
     client_db_id |-> id]

\* AdminUser(...) of create_admin_user: is_active is not passed either.
NewAdminUser(admin_user, hashed_password, id) ==
    [id |-> id,
     username |-> admin_user.username,
     hashed_password |-> hashed_password,
     email |-> admin_user.email,
     is_active |-> TRUE,
     is_superadmin |-> admin_user.is_superadmin]

\* The constraints of table clients (models/smartio_models.py): username,
\* contact_email, client_db_id and inn (where not NULL) unique,
\* subscription_type_id a foreign key.
ClientsConstraintsHold_without_unique(db_clients, db_sub_types) ==
    \A a \in db_clients : a.subscription_type_id \in db_sub_types

ClientsConstraintsHold_without_fk(db_clients, db_sub_types) ==
    \A a, b \in db_clients :
       a.id # b.id => /\ a.username # b.username
                      /\ a.contact_email # b.contact_email
                      /\ a.client_db_id # b.client_db_id
                      /\ a.inn = NoneVal \/ a.inn # b.inn

ClientsConstraintsHold(db_clients, db_sub_types) ==
    /\ \A a, b \in db_clients :
          a.id # b.id => /\ a.username # b.username
                         /\ a.contact_email # b.contact_email
                         /\ a.client_db_id # b.client_db_id
                         /\ a.inn = NoneVal \/ a.inn # b.inn
    /\ \A a \in db_clients : a.subscription_type_id \in db_sub_types

\* update_client: setattr for every field set in the body, the password hashed
\* into hashed_password.
UpdateFields == {"username", "password", "contact_email", "subscription_type_id", "is_active"}

ApplyClientUpdate(c, u, salt) ==
    [c EXCEPT
       !.username = IF "username" \in u.set THEN u.username ELSE @,
       !.hashed_password = IF "password" \in u.set THEN get_password_hash(u.password, salt) ELSE @,
       !.contact_email = IF "contact_email" \in u.set THEN u.contact_email ELSE @,
       !.subscription_type_id = IF "subscription_type_id" \in u.set THEN u.subscription_type_id ELSE @,
       !.is_active = IF "is_active" \in u.set THEN u.is_active ELSE @]

---------------------------------------------------------------------------
(* Requests *)

Inns == {NoneVal, "7700000001"}

ClientCreates ==
    [username : Usernames, contact_email : Emails, password : Passwords,
     subscription_type_id : SubTypeIds, inn : Inns, is_active : BOOLEAN]

AdminUserCreates ==
    [username : Usernames, email : Emails, password : Passwords, is_superadmin : BOOLEAN,
     is_active : BOOLEAN]

\* ClientUpdate bodies: the set of fields present (exclude_unset) and their values;
\* an absent field carries a fixed filler.
ClientUpdates ==
    {u \in [set : SUBSET UpdateFields, username : Usernames, password : Passwords,
            contact_email : Emails, subscription_type_id : SubTypeIds, is_active : BOOLEAN] :
        /\ Cardinality(u.set) <= MaxUpdateFields
        /\ "username" \notin u.set => u.username = "admin"
        /\ "password" \notin u.set => u.password = "adminpass"
        /\ "contact_email" \notin u.set => u.contact_email = "admin@smartio.com"
        /\ "subscription_type_id" \notin u.set => u.subscription_type_id = 1
        /\ "is_active" \notin u.set => u.is_active = TRUE}

NoToken == [form |-> "absent", sub |-> NoneVal, is_admin |-> FALSE, client_db_id |-> NoneVal, exp |-> 0]

\* Bearer tokens a caller can present that no login of the model handed out:
\* malformed text, a wrong signature, and tokens signed with SECRET_KEY whose
\* payload has or lacks sub and client_db_id (carried here by tokens for
\* "bob"), expired or not.
CraftedPayloads ==
    {[sub |-> s, client_db_id |-> NoneVal] : s \in Usernames \cup {NoneVal}}
    \cup {[sub |-> "bob", client_db_id |-> c] : c \in {"not-a-uuid", "uuid"}}

CraftedTokens ==
    {[form |-> "malformed", sub |-> NoneVal, is_admin |-> FALSE, client_db_id |-> NoneVal, exp |-> 0]}
    \cup
    {[form |-> "badsig", sub |-> "admin", is_admin |-> TRUE, client_db_id |-> NoneVal, exp |-> e] :
        e \in {now - 1, now + ACCESS_TOKEN_EXPIRE_MINUTES}}
    \cup
    {[form |-> "signed", sub |-> c.sub, is_admin |-> FALSE, client_db_id |-> c.client_db_id, exp |-> e] :
        c \in CraftedPayloads, e \in {now - 1, now, now + ACCESS_TOKEN_EXPIRE_MINUTES}}

\* What a caller presents: the token, and for whom a login issued it.
Presented ==
    tokens \cup {[tok |-> c, role |-> "none", pid |-> 0] : c \in CraftedTokens}

\* The tokens the writing endpoints are tried with: the issued ones, a forged
\* one, and one signed for the seeded superadmin.
PresentedToWrites ==
    tokens \cup
    {[tok |-> c, role |-> "none", pid |-> 0] :
        c \in {x \in CraftedTokens :
                 /\ x.exp = now + ACCESS_TOKEN_EXPIRE_MINUTES
                 /\ \/ x.form = "badsig"
                    \/ x.form = "signed" /\ x.sub = "admin"}}

\* What the model keeps of a request and its response: the handler, the status,
\* the detail, the id of the row returned, and of the token presented: for whom
\* it was issued, its sub, whether its exp had passed, and whether it is a
\* failed token (malformed, badly signed, expired, or without a sub or without
\* a client_db_id that is the text of a UUID).
Expired(token, t) == token.form \in {"signed", "badsig"} /\ token.exp < t

Unverifiable(token, t) == token.form # "signed" \/ Expired(token, t)

LacksAdminClaim(token) == token.sub = NoneVal

LacksClientClaim(token) ==
    token.sub = NoneVal \/ token.client_db_id = NoneVal \/ ~IsUUIDText(token.client_db_id)

Response(op, status, detail, id, p) ==
    [op |-> op, status |-> status, detail |-> detail, id |-> id,
     role |-> p.role, pid |-> p.pid, sub |-> p.tok.sub,
     expired |-> Expired(p.tok, now),
     failed |-> Unverifiable(p.tok, now) \/
                IF op = "read_client_me" THEN LacksClientClaim(p.tok) ELSE LacksAdminClaim(p.tok)]

Anonymous == [tok |-> NoToken, role |-> "none", pid |-> 0]

store == <<clients, admins, sub_types, next_client_id, next_admin_id>>

\* The tables behind the content endpoints of /api/admin/, and the names of
\* the subscription types.
content ==
    <<sub_type_names, blog_posts, future_plans, next_sub_type_id, next_post_id, next_plan_id>>

---------------------------------------------------------------------------
(* Initial state: the tables after startup (three seeded subscription      *)
(* types) and create_admin.py (the first superadmin).                      *)

SeedAdmin ==
    NewAdminUser([username |-> "admin", email |-> "admin@smartio.com", is_superadmin |-> TRUE],
                 get_password_hash("adminpass", 1), 1)

\* on_startup: SubscriptionTypeCreate(name=...) for the three seeded types
\* (the names are transliterated).
SeedSubTypeNames == (1 :> "Bazovaya") @@ (2 :> "Standart") @@ (3 :> "Premium")

Init ==
    /\ clients = {}
    /\ admins = {SeedAdmin}
    /\ sub_types = {1, 2, 3}
    /\ sub_type_names = SeedSubTypeNames
    /\ blog_posts = {}
    /\ future_plans = {}
    /\ next_sub_type_id = 4
    /\ next_post_id = 1
    /\ next_plan_id = 1
    /\ next_client_id = 1
    /\ next_admin_id = 2
    /\ now = 0
    /\ tokens = {}
    /\ resp = Response("startup", 0, "", 0, Anonymous)
    /\ reqs = <<>>
    /\ sessions = <<>>
    /\ calc = [fn |-> "none"]
    /\ page = [op |-> "none", status |-> 0, detail |-> "", id |-> 0, rows |-> {}]

\* Table future_plans is filled outside the API (POST /api/admin/future_plans/
\* answers 500 whatever it is sent): one active plan is in the table.
SeedFuturePlans == {[id |-> 1, title |-> "t1", is_active |-> TRUE]}

InitPublic ==
    /\ clients = {}
    /\ admins = {SeedAdmin}
    /\ sub_types = {1, 2, 3}
    /\ sub_type_names = SeedSubTypeNames
    /\ blog_posts = {}
    /\ future_plans = SeedFuturePlans
    /\ next_sub_type_id = 4
    /\ next_post_id = 1
    /\ next_plan_id = 2
    /\ next_client_id = 1
    /\ next_admin_id = 2
    /\ now = 0
    /\ tokens = {}
    /\ resp = Response("startup", 0, "", 0, Anonymous)
    /\ reqs = <<>>
    /\ sessions = <<>>
    /\ calc = [fn |-> "none"]
    /\ page = [op |-> "none", status |-> 0, detail |-> "", id |-> 0, rows |-> {}]

---------------------------------------------------------------------------
(* Environment *)

\* Time passes; what the last caller saw is dropped with it.
Tick ==
    /\ now + TickMinutes <= MaxTime
    /\ now' = now + TickMinutes
    /\ resp' = Response("idle", 0, "", 0, Anonymous)
    /\ UNCHANGED <<store, tokens, reqs, sessions, calc, page, content>>

\* Less time passes than a token lives.
Wait ==
    /\ now + WaitMinutes <= MaxTime
    /\ now' = now + WaitMinutes
    /\ resp' = Response("idle", 0, "", 0, Anonymous)
    /\ UNCHANGED <<store, tokens, reqs, sessions, calc, page, content>>

\* A holder throws a token away.
discard_token ==
    /\ \E t \in tokens : tokens' = tokens \ {t}
    /\ resp' = Response("idle", 0, "", 0, Anonymous)
    /\ UNCHANGED <<store, now, reqs, sessions, calc, page, content>>

---------------------------------------------------------------------------
(* Handlers of app/main.py *)

authenticate_client_user_without_verify(db_clients, username, password) ==
    get_client_by_username(db_clients, username)

authenticate_client_user(db_clients, username, password) ==
    {c \in get_client_by_username(db_clients, username) : verify_password(password, c.hashed_password)}

authenticate_admin_user(db_admins, username, password) ==
    {a \in get_admin_user_by_username(db_admins, username) : verify_password(password, a.hashed_password)}

\* POST /token
login_for_access_token(username, password) ==
    LET found == authenticate_client_user(clients, username, password) IN
    /\ IF found = {}
       THEN /\ resp' = Response("login_for_access_token", 401, "bad credentials", 0, Anonymous)
            /\ UNCHANGED tokens
       ELSE LET client_user == CHOOSE c \in found : TRUE
                access_token == create_access_token(
                                   [sub |-> client_user.username, is_admin |-> FALSE],
                                   timedelta(ACCESS_TOKEN_EXPIRE_MINUTES))
                issued == [tok |-> access_token, role |-> "client", pid |-> client_user.id]
            IN /\ Cardinality(tokens \cup {issued}) <= MaxTokens
               /\ tokens' = tokens \cup {issued}
               /\ resp' = Response("login_for_access_token", 200, "", client_user.id, issued)
    /\ UNCHANGED <<store, now, reqs, sessions, calc, page, content>>

\* POST /admin/token
admin_login_for_access_token(username, password) ==
    LET found == authenticate_admin_user(admins, username, password) IN
    /\ IF found = {}
       THEN /\ resp' = Response("admin_login_for_access_token", 401, "bad credentials", 0, Anonymous)
            /\ UNCHANGED tokens
       ELSE LET admin_user == CHOOSE a \in found : TRUE
                access_token == create_access_token(
                                   [sub |-> admin_user.username, is_admin |-> TRUE],
                                   timedelta(ACCESS_TOKEN_EXPIRE_MINUTES))
                issued == [tok |-> access_token, role |-> "admin", pid |-> admin_user.id]
            IN /\ Cardinality(tokens \cup {issued}) <= MaxTokens
               /\ tokens' = tokens \cup {issued}
               /\ resp' = Response("admin_login_for_access_token", 200, "", admin_user.id, issued)
    /\ UNCHANGED <<store, now, reqs, sessions, calc, page, content>>

\* GET /api/client/me
read_client_me(p) ==
    LET current_client == get_current_client_required(p.tok, clients, now) IN
    /\ resp' = Response("read_client_me", current_client.status, "", current_client.id, p)
    /\ UNCHANGED <<store, now, tokens, reqs, sessions, calc, page, content>>

read_admin_me_consuming_token(p) ==
    LET current_admin == get_current_admin_user_required(p.tok, admins, now) IN
    /\ resp' = Response("read_admin_me", current_admin.status, "", current_admin.id, p)
    /\ tokens' = tokens \ {p}
    /\ UNCHANGED <<store, now, reqs, sessions, calc, page, content>>

\* GET /api/admin/me
read_admin_me(p) ==
    LET current_admin == get_current_admin_user_required(p.tok, admins, now) IN
    /\ resp' = Response("read_admin_me", current_admin.status, "", current_admin.id, p)
    /\ UNCHANGED <<store, now, tokens, reqs, sessions, calc, page, content>>

CreateClientChecked_subscription_type_first(op, client_data, salt, p) ==
    IF get_subscription_type_by_id(sub_types, client_data.subscription_type_id) = {}
    THEN /\ resp' = Response(op, 400, "bad subscription type", 0, p)
         /\ UNCHANGED store
    ELSE IF get_client_by_username(clients, client_data.username) # {}
    THEN /\ resp' = Response(op, 400, "username registered", 0, p)
         /\ UNCHANGED store
    ELSE IF get_client_by_email(clients, client_data.contact_email) # {}
    THEN /\ resp' = Response(op, 400, "email registered", 0, p)
         /\ UNCHANGED store
    ELSE LET hashed_password == get_password_hash(client_data.password, salt)
             db_client == NewClient(client_data, hashed_password, next_client_id)
         IN /\ next_client_id <= MaxClientId
            /\ next_client_id' = next_client_id + 1
            /\ IF ClientsConstraintsHold(clients \cup {db_client}, sub_types)
               THEN /\ clients' = clients \cup {db_client}
                    /\ resp' = Response(op, 201, "", db_client.id, p)
               ELSE /\ resp' = Response(op, 500, "IntegrityError", 0, p)
                    /\ UNCHANGED clients
            /\ UNCHANGED <<admins, sub_types, next_admin_id>>

\* The body shared by POST /register and POST /api/admin/clients/: the three
\* checks in their order, then create_client (add, commit, refresh).  The
\* INSERT is checked by the database against the constraints of the table;
\* an IntegrityError leaves the handler as a 500, the sequence has advanced.
CreateClientChecked(op, client_data, salt, p) ==
    IF get_client_by_username(clients, client_data.username) # {}
    THEN /\ resp' = Response(op, 400, "username registered", 0, p)
         /\ UNCHANGED store
    ELSE IF get_client_by_email(clients, client_data.contact_email) # {}
    THEN /\ resp' = Response(op, 400, "email registered", 0, p)
         /\ UNCHANGED store
    ELSE IF get_subscription_type_by_id(sub_types, client_data.subscription_type_id) = {}
    THEN /\ resp' = Response(op, 400, "bad subscription type", 0, p)
         /\ UNCHANGED store
    ELSE LET hashed_password == get_password_hash(client_data.password, salt)
             db_client == NewClient(client_data, hashed_password, next_client_id)
         IN /\ next_client_id <= MaxClientId
            /\ next_client_id' = next_client_id + 1
            /\ IF ClientsConstraintsHold(clients \cup {db_client}, sub_types)
               THEN /\ clients' = clients \cup {db_client}
                    /\ resp' = Response(op, 201, "", db_client.id, p)
               ELSE /\ resp' = Response(op, 500, "IntegrityError", 0, p)
                    /\ UNCHANGED clients
            /\ UNCHANGED <<admins, sub_types, next_admin_id>>

\* POST /register
register_client(client_data, salt) ==
    /\ CreateClientChecked("register_client", client_data, salt, Anonymous)
    /\ UNCHANGED <<now, tokens, reqs, sessions, calc, page, content>>

\* POST /api/admin/clients/
create_client_by_admin(p, Bodies) ==
    LET current_admin == get_current_admin_user_required(p.tok, admins, now) IN
    /\ IF current_admin.status # 200
       THEN /\ resp' = Response("create_client_by_admin", current_admin.status, "", 0, p)
            /\ UNCHANGED store
       ELSE \E client_data \in Bodies, salt \in Salts :
               CreateClientChecked("create_client_by_admin", client_data, salt, p)
    /\ UNCHANGED <<now, tokens, reqs, sessions, calc, page, content>>

\* The body of POST /api/admin/admin_users/ behind the superadmin check.
CreateAdminChecked(op, admin_user_data, salt, p) ==
    IF get_admin_user_by_username(admins, admin_user_data.username) # {}
    THEN /\ resp' = Response(op, 400, "username registered", 0, p)
         /\ UNCHANGED store
    ELSE IF get_admin_user_by_email(admins, admin_user_data.email) # {}
    THEN /\ resp' = Response(op, 400, "email registered", 0, p)
         /\ UNCHANGED store
    ELSE LET hashed_password == get_password_hash(admin_user_data.password, salt)
             db_admin_user == NewAdminUser(admin_user_data, hashed_password, next_admin_id)
         IN /\ next_admin_id <= MaxAdminId
            /\ admins' = admins \cup {db_admin_user}
            /\ next_admin_id' = next_admin_id + 1
            /\ resp' = Response(op, 201, "", db_admin_user.id, p)
            /\ UNCHANGED <<clients, sub_types, next_client_id>>

create_new_admin_user_without_superadmin_check(p, Bodies) ==
    LET current_admin == get_current_admin_user_required(p.tok, admins, now)
        op == "create_new_admin_user"
    IN
    /\ IF current_admin.status # 200
       THEN /\ resp' = Response(op, current_admin.status, "", 0, p)
            /\ UNCHANGED store
       ELSE \E admin_user_data \in Bodies, salt \in Salts :
               CreateAdminChecked(op, admin_user_data, salt, p)
    /\ UNCHANGED <<now, tokens, reqs, sessions, calc, page, content>>

\* POST /api/admin/admin_users/
create_new_admin_user(p, Bodies) ==
    LET current_admin == get_current_admin_user_required(p.tok, admins, now)
        op == "create_new_admin_user"
    IN
    /\ IF current_admin.status # 200
       THEN /\ resp' = Response(op, current_admin.status, "", 0, p)
            /\ UNCHANGED store
       ELSE IF \E a \in admins : a.id = current_admin.id /\ ~a.is_superadmin
       THEN /\ resp' = Response(op, 403, "superadmin only", 0, p)
            /\ UNCHANGED store
       ELSE \E admin_user_data \in Bodies, salt \in Salts :
               CreateAdminChecked(op, admin_user_data, salt, p)
    /\ UNCHANGED <<now, tokens, reqs, sessions, calc, page, content>>

\* update_client commits the changed row; a constraint the row breaks raises
\* IntegrityError out of the handler (500) and the session closes without a
\* commit.
update_client(op, db_client, client_update, salt, p) ==
    LET updated == ApplyClientUpdate(db_client, client_update, salt)
        after == (clients \ {db_client}) \cup {updated}
    IN IF ClientsConstraintsHold(after, sub_types)
       THEN /\ clients' = after
            /\ resp' = Response(op, 200, "", updated.id, p)
            /\ UNCHANGED <<admins, sub_types, next_client_id, next_admin_id>>
       ELSE /\ resp' = Response(op, 500, "IntegrityError", 0, p)
            /\ UNCHANGED store

\* PUT /api/admin/clients/{client_id}
update_existing_client_api(p, client_id, Bodies) ==
    LET current_admin == get_current_admin_user_required(p.tok, admins, now)
        op == "update_existing_client_api"
        found == get_client_by_id(clients, client_id)
    IN
    /\ IF current_admin.status # 200
       THEN /\ resp' = Response(op, current_admin.status, "", 0, p)
            /\ UNCHANGED store
       ELSE IF found = {}
       THEN /\ resp' = Response(op, 404, "client not found", 0, p)
            /\ UNCHANGED store
       ELSE \E client_update \in Bodies, salt \in Salts :
               update_client(op, CHOOSE c \in found : TRUE, client_update, salt, p)
    /\ UNCHANGED <<now, tokens, reqs, sessions, calc, page, content>>

\* DELETE /api/admin/clients/{client_id}
delete_existing_client_api(p, client_id) ==
    LET current_admin == get_current_admin_user_required(p.tok, admins, now)
        op == "delete_existing_client_api"
        found == get_client_by_id(clients, client_id)
    IN
    /\ IF current_admin.status # 200
       THEN /\ resp' = Response(op, current_admin.status, "", 0, p)
            /\ UNCHANGED store
       ELSE IF found = {}
       THEN /\ resp' = Response(op, 404, "client not found", 0, p)
            /\ UNCHANGED store
       ELSE /\ clients' = clients \ found
            /\ resp' = Response(op, 204, "", client_id, p)
            /\ UNCHANGED <<admins, sub_types, next_client_id, next_admin_id>>
    /\ UNCHANGED <<now, tokens, reqs, sessions, calc, page, content>>

\* GET /api/admin/clients/{client_id}
get_client_by_id_api(p, client_id) ==
    LET current_admin == get_current_admin_user_required(p.tok, admins, now)
        op == "get_client_by_id_api"
        found == get_client_by_id(clients, client_id)
    IN
    /\ IF current_admin.status # 200
       THEN resp' = Response(op, current_admin.status, "", 0, p)
       ELSE IF found = {}
       THEN resp' = Response(op, 404, "client not found", 0, p)
       ELSE resp' = Response(op, 200, "", client_id, p)
    /\ UNCHANGED <<store, now, tokens, reqs, sessions, calc, page, content>>

---------------------------------------------------------------------------
(* Subscription types (admin) *)

SubTypeNames == {"Premium", "Pro"}

SubscriptionTypeCreates == [name : SubTypeNames]

\* SubscriptionTypeUpdate bodies: name present or absent (exclude_unset).
SubscriptionTypeUpdates ==
    {u \in [set : SUBSET {"name"}, name : SubTypeNames] :
        "name" \notin u.set => u.name = "Premium"}

\* subscription_types.name is unique.
SubTypeNameTaken(names, name, own_id) ==
    \E i \in DOMAIN names : i # own_id /\ names[i] = name

other_than_sub_types ==
    <<clients, admins, next_client_id, next_admin_id, blog_posts, future_plans,
      next_post_id, next_plan_id>>

\* GET /api/admin/subscription_types/{sub_type_id}
get_subscription_type_by_id_api(p, sub_type_id) ==
    LET current_admin == get_current_admin_user_required(p.tok, admins, now)
        op == "get_subscription_type_by_id_api"
    IN
    /\ IF current_admin.status # 200
       THEN resp' = Response(op, current_admin.status, "", 0, p)
       ELSE IF get_subscription_type_by_id(sub_types, sub_type_id) = {}
       THEN resp' = Response(op, 404, "subscription type not found", 0, p)
       ELSE resp' = Response(op, 200, "", sub_type_id, p)
    /\ UNCHANGED <<store, now, tokens, reqs, sessions, calc, page, content>>

\* create_subscription_type: db.add, db.commit; a name already in the table
\* raises IntegrityError out of the handler (500), the sequence has advanced.
create_subscription_type(op, sub_type, p) ==
    /\ next_sub_type_id <= MaxSubTypeId
    /\ next_sub_type_id' = next_sub_type_id + 1
    /\ IF SubTypeNameTaken(sub_type_names, sub_type.name, 0)
       THEN /\ resp' = Response(op, 500, "IntegrityError", 0, p)
            /\ UNCHANGED <<sub_types, sub_type_names>>
       ELSE /\ sub_types' = sub_types \cup {next_sub_type_id}
            /\ sub_type_names' = sub_type_names @@ (next_sub_type_id :> sub_type.name)
            /\ resp' = Response(op, 201, "", next_sub_type_id, p)
    /\ UNCHANGED other_than_sub_types

\* POST /api/admin/subscription_types/
create_new_subscription_type_api(p, Bodies) ==
    LET current_admin == get_current_admin_user_required(p.tok, admins, now)
        op == "create_new_subscription_type_api"
    IN
    /\ IF current_admin.status # 200
       THEN /\ resp' = Response(op, current_admin.status, "", 0, p)
            /\ UNCHANGED <<store, content>>
       ELSE \E sub_type_data \in Bodies : create_subscription_type(op, sub_type_data, p)
    /\ UNCHANGED <<now, tokens, reqs, sessions, calc, page>>

\* update_subscription_type: setattr for the fields set, db.commit.
update_subscription_type(op, sub_type_id, sub_type_update, p) ==
    LET name == IF "name" \in sub_type_update.set THEN sub_type_update.name
                ELSE sub_type_names[sub_type_id]
    IN IF SubTypeNameTaken(sub_type_names, name, sub_type_id)
       THEN /\ resp' = Response(op, 500, "IntegrityError", 0, p)
            /\ UNCHANGED <<store, content>>
       ELSE /\ sub_type_names' = [sub_type_names EXCEPT ![sub_type_id] = name]
            /\ resp' = Response(op, 200, "", sub_type_id, p)
            /\ UNCHANGED <<store, blog_posts, future_plans, next_sub_type_id,
                           next_post_id, next_plan_id>>

\* PUT /api/admin/subscription_types/{sub_type_id}
update_existing_subscription_type_api(p, sub_type_id, Bodies) ==
    LET current_admin == get_current_admin_user_required(p.tok, admins, now)
        op == "update_existing_subscription_type_api"
    IN
    /\ IF current_admin.status # 200
       THEN /\ resp' = Response(op, current_admin.status, "", 0, p)
            /\ UNCHANGED <<store, content>>
       ELSE IF get_subscription_type_by_id(sub_types, sub_type_id) = {}
       THEN /\ resp' = Response(op, 404, "subscription type not found", 0, p)
            /\ UNCHANGED <<store, content>>
       ELSE \E sub_type_update \in Bodies :
               update_subscription_type(op, sub_type_id, sub_type_update, p)
    /\ UNCHANGED <<now, tokens, reqs, sessions, calc, page>>

\* delete_subscription_type: db.delete, db.commit.  SubscriptionType.clients
\* has no delete cascade and clients.subscription_type_id is a NOT NULL
\* foreign key, so the commit raises IntegrityError (500) while a client
\* references the row, and nothing is deleted.
delete_subscription_type(op, sub_type_id, p) ==
    LET after == sub_types \ {sub_type_id}
    IN IF ClientsConstraintsHold(clients, after)
       THEN /\ sub_types' = after
            /\ sub_type_names' = [i \in after |-> sub_type_names[i]]
            /\ resp' = Response(op, 204, "", sub_type_id, p)
            /\ UNCHANGED next_sub_type_id
            /\ UNCHANGED other_than_sub_types
       ELSE /\ resp' = Response(op, 500, "IntegrityError", 0, p)
            /\ UNCHANGED <<store, content>>

\* DELETE /api/admin/subscription_types/{sub_type_id}
delete_existing_subscription_type_api(p, sub_type_id) ==
    LET current_admin == get_current_admin_user_required(p.tok, admins, now)
        op == "delete_existing_subscription_type_api"
    IN
    /\ IF current_admin.status # 200
       THEN /\ resp' = Response(op, current_admin.status, "", 0, p)
            /\ UNCHANGED <<store, content>>
       ELSE IF get_subscription_type_by_id(sub_types, sub_type_id) = {}
       THEN /\ resp' = Response(op, 404, "subscription type not found", 0, p)
            /\ UNCHANGED <<store, content>>
       ELSE delete_subscription_type(op, sub_type_id, p)
    /\ UNCHANGED <<now, tokens, reqs, sessions, calc, page>>

---------------------------------------------------------------------------
(* Blog posts (admin) *)

Titles == {"t1", "t2"}

\* tags as the handlers parse them from the comma-separated form field
BlogTags == {<<>>, <<"news">>}

\* The form of POST /api/admin/blogs/: title, tags (default "") and
\* is_published (default False).
BlogPostCreates == [title : Titles, is_published : BOOLEAN, tags : BlogTags]

\* The form of PUT /api/admin/blogs/{post_id}: a field is in the update only
\* when the form sent it (is not None).
BlogPostUpdates ==
    {u \in [set : SUBSET {"title", "is_published", "tags"}, title : Titles,
            is_published : BOOLEAN, tags : BlogTags] :
        /\ Cardinality(u.set) <= MaxUpdateFields
        /\ "title" \notin u.set => u.title = "t1"
        /\ "is_published" \notin u.set => u.is_published = FALSE
        /\ "tags" \notin u.set => u.tags = <<>>}

\* BlogPostResponse.model_validate(db_post): the columns of the row; table
\* blog_posts has no column tags, so tags is the default of the schema, [].
BlogPostResponse(db_post) ==
    [id |-> db_post.id, title |-> db_post.title, is_published |-> db_post.is_published,
     author_id |-> db_post.author_id, tags |-> <<>>]

get_blog_post_by_id_any(db_posts, post_id) == db_posts

get_blog_post_by_id(db_posts, post_id) == {r \in db_posts : r.id = post_id}

\* blog_posts.title is unique.
TitlesUnique(rows) == \A a, b \in rows : a.id # b.id => a.title # b.title

other_than_blog_posts ==
    <<store, sub_type_names, future_plans, next_sub_type_id, next_plan_id>>

\* create_blog_post: BlogPost(..., author_id=author_id), db.add, db.commit;
\* post_data.tags is not passed to BlogPost.
create_blog_post(op, post_data, author_id, p) ==
    LET db_blog_post == [id |-> next_post_id, title |-> post_data.title,
                         author_id |-> author_id, is_published |-> post_data.is_published]
    IN
    /\ next_post_id <= MaxPostId
    /\ next_post_id' = next_post_id + 1
    /\ IF TitlesUnique(blog_posts \cup {db_blog_post})
       THEN /\ blog_posts' = blog_posts \cup {db_blog_post}
            /\ resp' = Response(op, 201, "", db_blog_post.id, p)
       ELSE /\ resp' = Response(op, 500, "IntegrityError", 0, p)
            /\ UNCHANGED blog_posts
    /\ UNCHANGED other_than_blog_posts

\* POST /api/admin/blogs/
create_new_blog_post_api(p, Bodies) ==
    LET current_admin == get_current_admin_user_required(p.tok, admins, now)
        op == "create_new_blog_post_api"
    IN
    /\ IF current_admin.status # 200
       THEN /\ resp' = Response(op, current_admin.status, "", 0, p)
            /\ UNCHANGED <<store, content>>
       ELSE \E blog_post_data \in Bodies :
               create_blog_post(op, blog_post_data, current_admin.id, p)
    /\ UNCHANGED <<now, tokens, reqs, sessions, calc, page>>

\* GET /api/admin/blogs/{post_id}
get_blog_post_by_id_api(p, post_id) ==
    LET current_admin == get_current_admin_user_required(p.tok, admins, now)
        op == "get_blog_post_by_id_api"
    IN
    /\ IF current_admin.status # 200
       THEN resp' = Response(op, current_admin.status, "", 0, p)
       ELSE IF get_blog_post_by_id(blog_posts, post_id) = {}
       THEN resp' = Response(op, 404, "blog post not found", 0, p)
       ELSE resp' = Response(op, 200, "", post_id, p)
    /\ UNCHANGED <<store, now, tokens, reqs, sessions, calc, page, content>>

\* update_blog_post: setattr for the fields set, db.commit.  setattr of
\* "tags" sets an attribute of the object that is no column: the UPDATE
\* does not carry it.
update_blog_post(op, blog_post, post_update, p) ==
    LET updated == [blog_post EXCEPT
                      !.title = IF "title" \in post_update.set THEN post_update.title ELSE @,
                      !.is_published = IF "is_published" \in post_update.set
                                       THEN post_update.is_published ELSE @]
        after == (blog_posts \ {blog_post}) \cup {updated}
    IN IF TitlesUnique(after)
       THEN /\ blog_posts' = after
            /\ resp' = Response(op, 200, "", updated.id, p)
            /\ UNCHANGED next_post_id
            /\ UNCHANGED other_than_blog_posts
       ELSE /\ resp' = Response(op, 500, "IntegrityError", 0, p)
            /\ UNCHANGED <<store, content>>

\* PUT /api/admin/blogs/{post_id}
update_existing_blog_post_api(p, post_id, Bodies) ==
    LET current_admin == get_current_admin_user_required(p.tok, admins, now)
        op == "update_existing_blog_post_api"
        found == get_blog_post_by_id(blog_posts, post_id)
    IN
    /\ IF current_admin.status # 200
       THEN /\ resp' = Response(op, current_admin.status, "", 0, p)
            /\ UNCHANGED <<store, content>>
       ELSE IF found = {}
       THEN /\ resp' = Response(op, 404, "blog post not found", 0, p)
            /\ UNCHANGED <<store, content>>
       ELSE \E post_update_schema \in Bodies :
               update_blog_post(op, CHOOSE r \in found : TRUE, post_update_schema, p)
    /\ UNCHANGED <<now, tokens, reqs, sessions, calc, page>>

\* DELETE /api/admin/blogs/{post_id}
delete_existing_blog_post_api(p, post_id) ==
    LET current_admin == get_current_admin_user_required(p.tok, admins, now)
        op == "delete_existing_blog_post_api"
        found == get_blog_post_by_id(blog_posts, post_id)
    IN
    /\ IF current_admin.status # 200
       THEN /\ resp' = Response(op, current_admin.status, "", 0, p)
            /\ UNCHANGED <<store, content>>
       ELSE IF found = {}
       THEN /\ resp' = Response(op, 404, "blog post not found", 0, p)
            /\ UNCHANGED <<store, content>>
       ELSE /\ blog_posts' = blog_posts \ found
            /\ resp' = Response(op, 204, "", post_id, p)
            /\ UNCHANGED next_post_id
            /\ UNCHANGED other_than_blog_posts
    /\ UNCHANGED <<now, tokens, reqs, sessions, calc, page>>

---------------------------------------------------------------------------
(* Future plans (admin) *)

\* The form of PUT /api/admin/future_plans/{plan_id}.
FuturePlanUpdates ==
    {u \in [set : SUBSET {"title", "is_active"}, title : Titles, is_active : BOOLEAN] :
        /\ Cardinality(u.set) <= MaxUpdateFields
        /\ "title" \notin u.set => u.title = "t1"
        /\ "is_active" \notin u.set => u.is_active = TRUE}

get_future_plan_by_id(db_plans, plan_id) == {r \in db_plans : r.id = plan_id}

other_than_future_plans ==
    <<store, sub_type_names, blog_posts, next_sub_type_id, next_post_id>>

\* POST /api/admin/future_plans/.  create_future_plan reads short_description,
\* full_description, image_url, video_url and target_date of plan_data, fields
\* FuturePlanCreate does not have: AttributeError before db.add, answered 500.
create_new_future_plan_api(p) ==
    LET current_admin == get_current_admin_user_required(p.tok, admins, now)
        op == "create_new_future_plan_api"
    IN
    /\ IF current_admin.status # 200
       THEN resp' = Response(op, current_admin.status, "", 0, p)
       ELSE resp' = Response(op, 500, "AttributeError", 0, p)
    /\ UNCHANGED <<store, now, tokens, reqs, sessions, calc, page, content>>

\* GET /api/admin/future_plans/{plan_id}
get_future_plan_by_id_api(p, plan_id) ==
    LET current_admin == get_current_admin_user_required(p.tok, admins, now)
        op == "get_future_plan_by_id_api"
    IN
    /\ IF current_admin.status # 200
       THEN resp' = Response(op, current_admin.status, "", 0, p)
       ELSE IF get_future_plan_by_id(future_plans, plan_id) = {}
       THEN resp' = Response(op, 404, "future plan not found", 0, p)
       ELSE resp' = Response(op, 200, "", plan_id, p)
    /\ UNCHANGED <<store, now, tokens, reqs, sessions, calc, page, content>>

\* update_future_plan: setattr for the fields set, db.commit.
update_future_plan(op, future_plan, plan_update, p) ==
    LET updated == [future_plan EXCEPT
                      !.title = IF "title" \in plan_update.set THEN plan_update.title ELSE @,
                      !.is_active = IF "is_active" \in plan_update.set
                                    THEN plan_update.is_active ELSE @]
        after == (future_plans \ {future_plan}) \cup {updated}
    IN IF TitlesUnique(after)
       THEN /\ future_plans' = after
            /\ resp' = Response(op, 200, "", updated.id, p)
            /\ UNCHANGED next_plan_id
            /\ UNCHANGED other_than_future_plans
       ELSE /\ resp' = Response(op, 500, "IntegrityError", 0, p)
            /\ UNCHANGED <<store, content>>

\* PUT /api/admin/future_plans/{plan_id}
update_existing_future_plan_api(p, plan_id, Bodies) ==
    LET current_admin == get_current_admin_user_required(p.tok, admins, now)
        op == "update_existing_future_plan_api"
        found == get_future_plan_by_id(future_plans, plan_id)
    IN
    /\ IF current_admin.status # 200
       THEN /\ resp' = Response(op, current_admin.status, "", 0, p)
            /\ UNCHANGED <<store, content>>
       ELSE IF found = {}
       THEN /\ resp' = Response(op, 404, "future plan not found", 0, p)
            /\ UNCHANGED <<store, content>>
       ELSE \E plan_update_schema \in Bodies :
               update_future_plan(op, CHOOSE r \in found : TRUE, plan_update_schema, p)
    /\ UNCHANGED <<now, tokens, reqs, sessions, calc, page>>

\* DELETE /api/admin/future_plans/{plan_id}
delete_existing_future_plan_api(p, plan_id) ==
    LET current_admin == get_current_admin_user_required(p.tok, admins, now)
        op == "delete_existing_future_plan_api"
        found == get_future_plan_by_id(future_plans, plan_id)
    IN
    /\ IF current_admin.status # 200
       THEN /\ resp' = Response(op, current_admin.status, "", 0, p)
            /\ UNCHANGED <<store, content>>
       ELSE IF found = {}
       THEN /\ resp' = Response(op, 404, "future plan not found", 0, p)
            /\ UNCHANGED <<store, content>>
       ELSE /\ future_plans' = future_plans \ found
            /\ resp' = Response(op, 204, "", plan_id, p)
            /\ UNCHANGED next_plan_id
            /\ UNCHANGED other_than_future_plans
    /\ UNCHANGED <<now, tokens, reqs, sessions, calc, page>>

---------------------------------------------------------------------------
(* Public pages: no token is asked for; the handler hands rows to a        *)
(* template.                                                               *)

\* Optional[bool] arguments of the list queries
NoFilter == <<>>
Only(value) == <<value>>

Page(op, status, detail, id, rows) ==
    [op |-> op, status |-> status, detail |-> detail, id |-> id, rows |-> rows]

get_all_blog_posts_unfiltered(db_posts, is_published) == db_posts

\* get_all_blog_posts(db, is_published): WHERE is_published = ... when given
get_all_blog_posts(db_posts, is_published) ==
    IF is_published = NoFilter THEN db_posts
    ELSE {r \in db_posts : Only(r.is_published) = is_published}

\* get_all_future_plans(db, is_active): WHERE is_active = ... when given
get_all_future_plans(db_plans, is_active) ==
    IF is_active = NoFilter THEN db_plans
    ELSE {r \in db_plans : Only(r.is_active) = is_active}

served_page == <<store, now, tokens, resp, reqs, sessions, calc, content>>

\* GET /blogs
blogs_page ==
    /\ page' = Page("blogs_page", 200, "", 0, get_all_blog_posts(blog_posts, Only(TRUE)))
    /\ UNCHANGED served_page

\* GET /blogs/{post_id}.  For a published post the handler goes on to
\* get_all_blog_posts(db, is_published=True, limit=5): the function has no
\* parameter limit, TypeError, answered 500.
blog_post_detail_page(post_id) ==
    LET blog_post == get_blog_post_by_id(blog_posts, post_id)
        op == "blog_post_detail_page"
    IN
    /\ IF blog_post = {} \/ \E r \in blog_post : ~r.is_published
       THEN page' = Page(op, 404, "Blog post not found or not published", post_id, {})
       ELSE page' = Page(op, 500, "TypeError", post_id, {})
    /\ UNCHANGED served_page

\* GET /future-plans
future_plans_page ==
    /\ page' = Page("future_plans_page", 200, "", 0, get_all_future_plans(future_plans, Only(TRUE)))
    /\ UNCHANGED served_page

\* GET /future-plans/{plan_id}.  For an active plan the handler goes on to
\* get_all_future_plans(db, is_active=True, limit=5): no parameter limit,
\* TypeError, answered 500.
future_plan_detail_page(plan_id) ==
    LET future_plan == get_future_plan_by_id(future_plans, plan_id)
        op == "future_plan_detail_page"
    IN
    /\ IF future_plan = {} \/ \E r \in future_plan : ~r.is_active
       THEN page' = Page(op, 404, "Future plan not found or not active", plan_id, {})
       ELSE page' = Page(op, 500, "TypeError", plan_id, {})
    /\ UNCHANGED served_page

---------------------------------------------------------------------------
(* The server: requests arrive one at a time.  SpecAuth is the server seen *)
(* from the token side: every handler that changes a principal, the two    *)
(* logins and the two authenticated "me" endpoints, with request bodies    *)
(* that differ in what the resolvers read (username, is_active).           *)

ClientIds == 1..MaxClientId

EmailOf(u) == IF u = "admin" THEN "admin@smartio.com" ELSE "bob@x.io"
PasswordOf(u) == IF u = "admin" THEN "adminpass" ELSE "pw2"

AuthClientCreates ==
    {d \in ClientCreates : /\ d.inn = NoneVal /\ d.is_active
                           /\ d.contact_email = EmailOf(d.username)
                           /\ d.password = PasswordOf(d.username)
                           /\ d.subscription_type_id = 1}

AuthAdminUserCreates ==
    {d \in AdminUserCreates : /\ d.is_active
                              /\ d.email = EmailOf(d.username)
                              /\ d.password = PasswordOf(d.username)
                              /\ ~d.is_superadmin}

AuthClientUpdates == {u \in ClientUpdates : u.set \subseteq {"username", "is_active"}}

NextAuth ==
    \/ Tick
    \/ discard_token
    \/ \E u \in Usernames, pw \in Passwords :
          login_for_access_token(u, pw) /\ Cardinality(tokens') <= MaxHeldTokens
    \/ \E u \in Usernames, pw \in Passwords :
          admin_login_for_access_token(u, pw) /\ Cardinality(tokens') <= MaxHeldTokens
    \/ \E p \in Presented : read_client_me(p)
    \/ \E p \in Presented : read_admin_me(p)
    \/ \E d \in AuthClientCreates, salt \in Salts : register_client(d, salt)
    \/ \E p \in PresentedToWrites : create_client_by_admin(p, AuthClientCreates)
    \/ \E p \in PresentedToWrites : create_new_admin_user(p, AuthAdminUserCreates)
    \/ \E p \in PresentedToWrites, i \in ClientIds :
          update_existing_client_api(p, i, AuthClientUpdates)
    \/ \E p \in PresentedToWrites, i \in ClientIds : delete_existing_client_api(p, i)

SpecAuth == Init /\ [][NextAuth]_vars

---------------------------------------------------------------------------
(* SpecStore is the server seen from the store side: the handlers that     *)
(* create, change and delete principals, with every request body, called   *)
(* with the issued admin tokens, a forged one and a signed one.            *)

StoreClientCreates ==
    {d \in ClientCreates : d.password = PasswordOf(d.username) /\ d.inn = NoneVal /\ d.is_active}

StoreAdminUserCreates ==
    {d \in AdminUserCreates : d.password = PasswordOf(d.username) /\ d.is_active}

StoreClientUpdates ==
    {u \in ClientUpdates : u.set \subseteq {"username", "contact_email", "subscription_type_id"}}

NextStore ==
    \/ discard_token
    \/ \E u \in Usernames, pw \in Passwords :
          admin_login_for_access_token(u, pw) /\ Cardinality(tokens') <= MaxHeldTokens
    \/ \E d \in StoreClientCreates, salt \in Salts : register_client(d, salt)
    \/ \E p \in PresentedToWrites : create_client_by_admin(p, StoreClientCreates)
    \/ \E p \in PresentedToWrites : create_new_admin_user(p, StoreAdminUserCreates)
    \/ \E p \in PresentedToWrites, i \in ClientIds :
          update_existing_client_api(p, i, StoreClientUpdates)
    \/ \E p \in PresentedToWrites, i \in ClientIds : delete_existing_client_api(p, i)

SpecStore == Init /\ [][NextStore]_vars

---------------------------------------------------------------------------
(* SpecCrud is the server seen from the resources of /api/admin/: clients, *)
(* subscription types, blog posts and future plans are created, read,      *)
(* changed and deleted by requests that carry no token or a token signed   *)
(* for the seeded admin.                                                   *)

\* tried with: the issued tokens, one signed for the seeded superadmin, and
\* no token at all
CrudPresented == {p \in PresentedToWrites : p.tok.form = "signed"} \cup {Anonymous}

CrudClientCreates == {d \in AuthClientCreates : d.username = "bob"}

CrudBlogPostCreates == {d \in BlogPostCreates : ~d.is_published}

CrudClientUpdates == {u \in ClientUpdates : u.set \subseteq {"subscription_type_id"}}

\* ids asked for: a seeded subscription type and the next one to be created
CrudSubTypeIds == {1, MaxSubTypeId}
PostIds == 1..MaxPostId
PlanIds == {1}

NextCrud ==
    \/ \E d \in CrudClientCreates, salt \in Salts : register_client(d, salt)
    \/ \E p \in CrudPresented, i \in ClientIds : get_client_by_id_api(p, i)
    \/ \E p \in CrudPresented, i \in ClientIds :
          update_existing_client_api(p, i, CrudClientUpdates)
    \/ \E p \in CrudPresented, i \in ClientIds : delete_existing_client_api(p, i)
    \/ \E p \in CrudPresented, i \in CrudSubTypeIds : get_subscription_type_by_id_api(p, i)
    \/ \E p \in CrudPresented : create_new_subscription_type_api(p, SubscriptionTypeCreates)
    \/ \E p \in CrudPresented, i \in CrudSubTypeIds :
          update_existing_subscription_type_api(p, i, SubscriptionTypeUpdates)
    \/ \E p \in CrudPresented, i \in CrudSubTypeIds : delete_existing_subscription_type_api(p, i)
    \/ \E p \in CrudPresented : create_new_blog_post_api(p, CrudBlogPostCreates)
    \/ \E p \in CrudPresented, i \in PostIds : get_blog_post_by_id_api(p, i)
    \/ \E p \in CrudPresented, i \in PostIds :
          update_existing_blog_post_api(p, i, BlogPostUpdates)
    \/ \E p \in CrudPresented, i \in PostIds : delete_existing_blog_post_api(p, i)
    \/ \E p \in CrudPresented : create_new_future_plan_api(p)
    \/ \E p \in CrudPresented, i \in PlanIds : get_future_plan_by_id_api(p, i)
    \/ \E p \in CrudPresented, i \in PlanIds :
          update_existing_future_plan_api(p, i, FuturePlanUpdates)
    \/ \E p \in CrudPresented, i \in PlanIds : delete_existing_future_plan_api(p, i)

SpecCrud == Init /\ [][NextCrud]_vars

---------------------------------------------------------------------------
(* SpecRace: POST /register requests running concurrently.  Each request   *)
(* has its own session; its three SELECTs and its INSERT + COMMIT are      *)
(* separate database statements, and other requests run between them.      *)
(* The unique constraints of table clients are checked by the database at  *)
(* the INSERT; register_client does not catch the IntegrityError.          *)

Request(body, pc, status) == [body |-> body, pc |-> pc, status |-> status]

Goto(i, pc, status) == reqs' = [reqs EXCEPT ![i] = Request(reqs[i].body, pc, status)]

\* the request arrives
register_begin ==
    /\ Len(reqs) < MaxRequests
    /\ \E d \in StoreClientCreates : reqs' = Append(reqs, Request(d, "check_username", 0))
    /\ UNCHANGED <<store, now, tokens, resp, content, sessions, calc, page>>

\* existing_client_username = await get_client_by_username(...)
register_check_username(i) ==
    /\ reqs[i].pc = "check_username"
    /\ IF get_client_by_username(clients, reqs[i].body.username) # {}
       THEN Goto(i, "done", 400)
       ELSE Goto(i, "check_email", 0)
    /\ UNCHANGED <<store, now, tokens, resp, content, sessions, calc, page>>

\* existing_client_email = await get_client_by_email(...)
register_check_email(i) ==
    /\ reqs[i].pc = "check_email"
    /\ IF get_client_by_email(clients, reqs[i].body.contact_email) # {}
       THEN Goto(i, "done", 400)
       ELSE Goto(i, "check_subscription_type", 0)
    /\ UNCHANGED <<store, now, tokens, resp, content, sessions, calc, page>>

\* subscription_type = await get_subscription_type_by_id(...)
register_check_subscription_type(i) ==
    /\ reqs[i].pc = "check_subscription_type"
    /\ IF get_subscription_type_by_id(sub_types, reqs[i].body.subscription_type_id) = {}
       THEN Goto(i, "done", 400)
       ELSE Goto(i, "create_client", 0)
    /\ UNCHANGED <<store, now, tokens, resp, content, sessions, calc, page>>

\* db_client = await create_client(...): db.add, db.commit.  The sequence
\* behind clients.id advances whether or not the INSERT succeeds.
register_create_client(i, salt) ==
    /\ reqs[i].pc = "create_client"
    /\ LET hashed_password == get_password_hash(reqs[i].body.password, salt)
           db_client == NewClient(reqs[i].body, hashed_password, next_client_id)
       IN IF ClientsConstraintsHold(clients \cup {db_client}, sub_types)
          THEN /\ clients' = clients \cup {db_client}
               /\ Goto(i, "done", 201)
          ELSE /\ UNCHANGED clients
               /\ Goto(i, "done", 500)
    /\ next_client_id' = next_client_id + 1
    /\ UNCHANGED <<admins, sub_types, next_admin_id, now, tokens, resp, content, sessions, calc, page>>

NextRace ==
    \/ register_begin
    \/ \E i \in DOMAIN reqs : register_check_username(i)
    \/ \E i \in DOMAIN reqs : register_check_email(i)
    \/ \E i \in DOMAIN reqs : register_check_subscription_type(i)
    \/ \E i \in DOMAIN reqs, salt \in Salts : register_create_client(i, salt)

SpecRace == Init /\ [][NextRace]_vars

---------------------------------------------------------------------------
(* SpecTokens: the life of the tokens the two logins hand out.  Principals *)
(* log in more than once and at different times, hold two tokens at once   *)
(* and present them while clients and admins are created, changed and      *)
(* deleted and while time passes, in steps shorter and longer than         *)
(* ACCESS_TOKEN_EXPIRE_MINUTES.                                            *)

TokensClientUpdates == {u \in ClientUpdates : u.set \subseteq {"is_active"}}

NextTokens ==
    \/ Tick
    \/ Wait
    \/ \E u \in Usernames : login_for_access_token(u, PasswordOf(u))
    \/ \E u \in Usernames : admin_login_for_access_token(u, PasswordOf(u))
    \/ \E p \in tokens : read_client_me(p)
    \/ \E p \in tokens : read_admin_me(p)
    \/ \E d \in CrudClientCreates, salt \in Salts : register_client(d, salt)
    \/ \E p \in tokens : create_new_admin_user(p, AuthAdminUserCreates)
    \/ \E p \in tokens, i \in ClientIds : update_existing_client_api(p, i, TokensClientUpdates)
    \/ \E p \in tokens, i \in ClientIds : delete_existing_client_api(p, i)

SpecTokens == Init /\ [][NextTokens]_vars

---------------------------------------------------------------------------
(* SpecSession: the database session of each request.  Every handler that  *)
(* touches the database receives its AsyncSession from the dependency      *)
(* get_smartio_db of app/database.py, a generator that FastAPI enters      *)
(* before the other dependencies and the handler, and resumes after them.  *)
(* FastAPI calls a dependency once per request, so the admin or client     *)
(* dependency and the handler of one request work on the same session.     *)

SessionRequest(pc, session, closed, uses, status) ==
    [pc |-> pc, session |-> session, closed |-> closed, uses |-> uses, status |-> status]

\* AsyncSessionLocalSmartio(): the session factory makes a new session
\* object at every call.
AsyncSessionLocalSmartio ==
    Cardinality({i \in DOMAIN sessions : sessions[i].session # 0}) + 1

\* a request arrives at a route that depends on get_smartio_db
session_request_begin ==
    /\ Len(sessions) < MaxSessionRequests
    /\ sessions' = Append(sessions, SessionRequest("get_smartio_db", 0, FALSE, 0, 0))
    /\ UNCHANGED <<store, now, tokens, resp, reqs, content, calc, page>>

\* async with AsyncSessionLocalSmartio() as session: try: yield session
get_smartio_db_yield(i) ==
    /\ sessions[i].pc = "get_smartio_db"
    /\ sessions' = [sessions EXCEPT ![i] =
          SessionRequest("dependency", AsyncSessionLocalSmartio, FALSE, 0, 0)]
    /\ UNCHANGED <<store, now, tokens, resp, reqs, content, calc, page>>

\* get_current_*_required, or nothing for a route without it: reads through
\* the session and raises HTTPException(401), or lets the handler run.
session_dependency(i, passes) ==
    /\ sessions[i].pc = "dependency"
    /\ sessions' = [sessions EXCEPT ![i] =
          IF passes
          THEN SessionRequest("handler", @.session, @.closed, @.uses + 1, 0)
          ELSE SessionRequest("finally", @.session, @.closed, @.uses + 1, 401)]
    /\ UNCHANGED <<store, now, tokens, resp, reqs, content, calc, page>>

\* the handler works through the session and returns (2xx), raises
\* HTTPException (4xx) or lets an exception escape (500)
session_handler(i, status) ==
    /\ sessions[i].pc = "handler"
    /\ sessions' = [sessions EXCEPT ![i] =
          SessionRequest("finally", @.session, @.closed, @.uses + 1, status)]
    /\ UNCHANGED <<store, now, tokens, resp, reqs, content, calc, page>>

get_smartio_db_finally_unless_raised(i) ==
    /\ sessions[i].pc = "finally"
    /\ sessions' = [sessions EXCEPT ![i] =
          SessionRequest("done", @.session, @.status < 400, @.uses, @.status)]
    /\ UNCHANGED <<store, now, tokens, resp, reqs, content, calc, page>>

\* finally: await session.close(), then the exit of the async with block,
\* which closes the session too; both run whether the generator is resumed
\* normally or with the exception of the handler.
get_smartio_db_finally(i) ==
    /\ sessions[i].pc = "finally"
    /\ sessions' = [sessions EXCEPT ![i] =
          SessionRequest("done", @.session, TRUE, @.uses, @.status)]
    /\ UNCHANGED <<store, now, tokens, resp, reqs, content, calc, page>>

HandlerStatuses == {200, 400, 500}

NextSession ==
    \/ session_request_begin
    \/ \E i \in DOMAIN sessions : get_smartio_db_yield(i)
    \/ \E i \in DOMAIN sessions, passes \in BOOLEAN : session_dependency(i, passes)
    \/ \E i \in DOMAIN sessions, status \in HandlerStatuses : session_handler(i, status)
    \/ \E i \in DOMAIN sessions : get_smartio_db_finally(i)

SpecSession == Init /\ [][NextSession]_vars

---------------------------------------------------------------------------
(* SpecCalc: the functions of app/core/security.py called on their own:    *)
(* a password is hashed, hashed again, and plaintexts are verified against *)
(* the hashes; tokens are made from claims and an expires_delta at         *)
(* different times.                                                        *)

CalcPasswords == Passwords \cup LongPasswords

\* the salts bcrypt draws (16 random bytes; a salt is not drawn twice)
CalcSalts == 1..MaxCalcSalt

\* hash1 = get_password_hash(password)
calc_get_password_hash(password, salt) ==
    /\ calc' = [fn |-> "get_password_hash", password |-> password,
                hashes |-> <<get_password_hash(password, salt)>>]
    /\ UNCHANGED <<store, now, tokens, resp, reqs, sessions, content, page>>

\* hash2 = get_password_hash(password), the same password again
calc_get_password_hash_again(salt) ==
    /\ calc.fn = "get_password_hash" /\ Len(calc.hashes) = 1
    /\ salt # calc.hashes[1].salt
    /\ calc' = [calc EXCEPT !.hashes = Append(@, get_password_hash(calc.password, salt))]
    /\ UNCHANGED <<store, now, tokens, resp, reqs, sessions, content, page>>

\* verify_password(plain_password, hash_k)
calc_verify_password(plain_password, k) ==
    /\ calc.fn = "get_password_hash" /\ k \in DOMAIN calc.hashes
    /\ calc' = [fn |-> "verify_password", password |-> calc.password, hashes |-> calc.hashes,
                plain_password |-> plain_password, against |-> k,
                result |-> verify_password(plain_password, calc.hashes[k])]
    /\ UNCHANGED <<store, now, tokens, resp, reqs, sessions, content, page>>

ExpiresDeltas == {NoDelta} \cup {timedelta(m) : m \in {0, WaitMinutes, 2 * ACCESS_TOKEN_EXPIRE_MINUTES}}

TokenClaims == {[sub |-> u, is_admin |-> a] : u \in Usernames, a \in BOOLEAN}

\* create_access_token(data, expires_delta)
calc_create_access_token(data, expires_delta) ==
    /\ calc' = [fn |-> "create_access_token", data |-> data, expires_delta |-> expires_delta,
                issued_at |-> now, token |-> create_access_token(data, expires_delta)]
    /\ UNCHANGED <<store, now, tokens, resp, reqs, sessions, content, page>>

NextCalc ==
    \/ Tick
    \/ Wait
    \/ \E pw \in CalcPasswords, salt \in CalcSalts : calc_get_password_hash(pw, salt)
    \/ \E salt \in CalcSalts : calc_get_password_hash_again(salt)
    \/ \E pw \in CalcPasswords, k \in 1..2 : calc_verify_password(pw, k)
    \/ \E d \in TokenClaims, e \in ExpiresDeltas : calc_create_access_token(d, e)

SpecCalc == Init /\ [][NextCalc]_vars

---------------------------------------------------------------------------
(* SpecPassword: the passwords of clients.  A client registers, the admin  *)
(* sets new passwords with PUT /api/admin/clients/{client_id}, and logins  *)
(* are tried with every password, short ones and ones longer than 72       *)
(* bytes.                                                                  *)

PasswordClientCreates ==
    {[d EXCEPT !.password = pw] : d \in CrudClientCreates, pw \in CalcPasswords}

PasswordClientUpdates ==
    {[u EXCEPT !.password = pw] :
        u \in {x \in ClientUpdates : x.set = {"password"}}, pw \in CalcPasswords}

NextPassword ==
    \/ \E d \in PasswordClientCreates, salt \in Salts : register_client(d, salt)
    \/ \E p \in CrudPresented, i \in ClientIds :
          update_existing_client_api(p, i, PasswordClientUpdates)
    \/ \E p \in CrudPresented, i \in ClientIds : delete_existing_client_api(p, i)
    \/ \E u \in Usernames, pw \in CalcPasswords :
          login_for_access_token(u, pw) /\ Cardinality(tokens') <= MaxHeldTokens
    \/ discard_token

SpecPassword == Init /\ [][NextPassword]_vars

---------------------------------------------------------------------------
(* SpecRegister: principals are created with every field of the create     *)
(* bodies in play: clients with and without an inn, clients and admins     *)
(* with is_active true and false; they log in and present their tokens.    *)

RegisterClientCreates ==
    {d \in ClientCreates : /\ d.contact_email = EmailOf(d.username)
                           /\ d.password = PasswordOf(d.username)
                           /\ d.subscription_type_id = 1}

RegisterAdminUserCreates ==
    {d \in AdminUserCreates : /\ d.username = "bob" /\ d.email = EmailOf(d.username)
                              /\ d.password = PasswordOf(d.username)
                              /\ ~d.is_superadmin}

NextRegister ==
    \/ \E d \in RegisterClientCreates, salt \in Salts : register_client(d, salt)
    \/ \E p \in CrudPresented : create_client_by_admin(p, RegisterClientCreates)
    \/ \E p \in CrudPresented : create_new_admin_user(p, RegisterAdminUserCreates)
    \/ \E p \in CrudPresented, i \in ClientIds : delete_existing_client_api(p, i)
    \/ \E u \in Usernames :
          login_for_access_token(u, PasswordOf(u)) /\ Cardinality(tokens') <= MaxHeldTokens
    \/ \E u \in Usernames :
          admin_login_for_access_token(u, PasswordOf(u)) /\ Cardinality(tokens') <= MaxHeldTokens
    \/ \E p \in tokens : read_client_me(p)
    \/ \E p \in tokens : read_admin_me(p)
    \/ discard_token

SpecRegister == Init /\ [][NextRegister]_vars

---------------------------------------------------------------------------
(* SpecPublic: an admin writes, publishes, withdraws and deletes blog      *)
(* posts and plans while visitors read the public pages.                   *)

PublicBlogPostCreates == {d \in BlogPostCreates : d.tags = <<>>}

PublicBlogPostUpdates == {u \in BlogPostUpdates : u.set \subseteq {"is_published"}}

PublicFuturePlanUpdates == {u \in FuturePlanUpdates : u.set \subseteq {"is_active"}}

NextPublic ==
    \/ \E p \in CrudPresented : create_new_blog_post_api(p, PublicBlogPostCreates)
    \/ \E p \in CrudPresented, i \in PostIds :
          update_existing_blog_post_api(p, i, PublicBlogPostUpdates)
    \/ \E p \in CrudPresented, i \in PostIds : delete_existing_blog_post_api(p, i)
    \/ \E p \in CrudPresented, i \in PlanIds :
          update_existing_future_plan_api(p, i, PublicFuturePlanUpdates)
    \/ \E p \in CrudPresented, i \in PlanIds : delete_existing_future_plan_api(p, i)
    \/ blogs_page
    \/ \E i \in PostIds : blog_post_detail_page(i)
    \/ future_plans_page
    \/ \E i \in PlanIds : future_plan_detail_page(i)

SpecPublic == InitPublic /\ [][NextPublic]_vars

---------------------------------------------------------------------------
(* Properties of the token side (SpecAuth) *)

AdminGuardedOps ==
    {"read_admin_me", "create_client_by_admin", "create_new_admin_user",
     "update_existing_client_api", "delete_existing_client_api"}

ClientGuardedOps == {"read_client_me"}

ActiveClientIds == {c.id : c \in {x \in clients : x.is_active}}
ActiveAdminIds == {a.id : a \in {x \in admins : x.is_active}}

\* C1: a token issued by POST /token never authenticates as an admin: every
\* endpoint guarded by get_current_admin_user_required answers it with 401.
C1_ClientTokenNeverAdmin ==
    (resp.op \in AdminGuardedOps /\ resp.role = "client") => resp.status = 401

\* C2: a token issued by POST /admin/token never authenticates as a client:
\* get_current_client_required answers it with 401 in every store state, also
\* when an active client has the admin's username.
C2_AdminTokenNeverClient ==
    /\ (resp.op \in ClientGuardedOps /\ resp.role = "admin") => resp.status = 401
    /\ \A t \in tokens :
          t.role = "admin" => get_current_client_required(t.tok, clients, now).status = 401

C2_Witness ==
    /\ resp.op = "read_client_me" /\ resp.role = "admin" /\ resp.status = 401
    /\ ~resp.expired
    /\ \E a \in admins, c \in clients :
          a.id = resp.pid /\ c.username = a.username /\ c.is_active

\* C3: a token issued for principal P resolves only to P: whenever a "me"
\* endpoint accepts an issued token, the row it returns is the row of the role
\* and id the login issued the token for.
C3_TokenResolvesOnlyToItsPrincipal ==
    (resp.status = 200 /\ resp.role # "none") =>
        /\ resp.op = "read_client_me" => (resp.role = "client" /\ resp.id = resp.pid)
        /\ resp.op = "read_admin_me" => (resp.role = "admin" /\ resp.id = resp.pid)

\* C4: an expired token is always rejected: both *_required dependencies answer
\* 401 for every token whose exp has passed, whatever its signature and
\* whether or not its subject is an existing active principal.
C4_ExpiredTokenRejected ==
    /\ (resp.op \in AdminGuardedOps \cup ClientGuardedOps /\ resp.expired) => resp.status = 401
    /\ \A p \in Presented :
          Expired(p.tok, now) =>
             /\ get_current_client_required(p.tok, clients, now).status = 401
             /\ get_current_admin_user_required(p.tok, admins, now).status = 401

C4_Witness ==
    /\ resp.op = "read_admin_me" /\ resp.role = "admin" /\ resp.expired
    /\ resp.status = 401
    /\ resp.pid \in ActiveAdminIds

\* C5: a token whose subject does not resolve to an active principal is
\* rejected: when the principal an issued token names (the client or admin it
\* was issued to) is absent from the store or inactive at the time of the
\* request, GET /api/client/me and GET /api/admin/me answer 401.
C5_InactiveSubjectRejected ==
    (resp.op \in {"read_client_me", "read_admin_me"}) =>
        /\ (resp.role = "client" /\ resp.pid \notin ActiveClientIds) => resp.status = 401
        /\ (resp.role = "admin" /\ resp.pid \notin ActiveAdminIds) => resp.status = 401

\* C6: every token failure collapses to one 401: a token that is malformed,
\* badly signed, expired or lacks a required claim (sub; for a client also a
\* client_db_id that is the text of a UUID) is answered 401, never 5xx.
C6_TokenFailureIs401 ==
    (resp.op \in {"read_client_me", "read_admin_me"} /\ resp.failed) => resp.status = 401

\* C7: the token of a successful POST /token, presented before its expiry
\* while the client is present and active, is accepted and GET /api/client/me
\* returns that client.
C7_ClientGetsOwnRecord ==
    (/\ resp.op = "read_client_me" /\ resp.role = "client" /\ ~resp.expired
     /\ resp.pid \in ActiveClientIds)
        => (resp.status = 200 /\ resp.id = resp.pid)

\* C8: the token of a successful POST /admin/token, presented before its
\* expiry while the admin is present and active, is accepted and
\* GET /api/admin/me returns that admin.
C8_AdminGetsOwnRecord ==
    /\ (/\ resp.op = "read_admin_me" /\ resp.role = "admin" /\ ~resp.expired
        /\ resp.pid \in ActiveAdminIds)
           => (resp.status = 200 /\ resp.id = resp.pid)
    /\ \A t \in tokens :
          (t.role = "admin" /\ ~Expired(t.tok, now) /\ t.pid \in ActiveAdminIds)
             => get_current_admin_user_required(t.tok, admins, now) = [status |-> 200, id |-> t.pid]

C8_Witness ==
    /\ resp.op = "read_admin_me" /\ resp.role = "admin" /\ ~resp.expired
    /\ resp.status = 200 /\ resp.id = resp.pid /\ resp.pid \in ActiveAdminIds

---------------------------------------------------------------------------
(* Properties of the store side (SpecStore, SpecRace) *)

DuplicateClient(d) ==
    \E c \in clients : c.username = d.username \/ c.contact_email = d.contact_email

DuplicateAdmin(d) ==
    \E a \in admins : a.username = d.username \/ a.email = d.email

AuthenticatedAdmin(p) == get_current_admin_user_required(p.tok, admins, now).status = 200

AuthenticatedSuperadmin(p) ==
    \E a \in admins :
       /\ get_current_admin_user_required(p.tok, admins, now) = [status |-> 200, id |-> a.id]
       /\ a.is_superadmin

\* C9: duplicate registration is rejected with 400 and changes nothing: a
\* POST /register, a POST /api/admin/clients/ that passed the admin dependency
\* and a POST /api/admin/admin_users/ that passed it as a superadmin, whose
\* username or email is that of an existing row, answer 400 and leave every
\* table as it was.
C9_DuplicateRejected ==
    [][/\ resp'.op = "register_client" =>
           \A d \in StoreClientCreates, salt \in Salts :
              (DuplicateClient(d) /\ register_client(d, salt))
                 => (resp'.status = 400 /\ UNCHANGED store)
       /\ resp'.op = "create_client_by_admin" =>
           \A p \in PresentedToWrites, d \in StoreClientCreates :
              (DuplicateClient(d) /\ AuthenticatedAdmin(p) /\ create_client_by_admin(p, {d}))
                 => (resp'.status = 400 /\ UNCHANGED store)
       /\ resp'.op = "create_new_admin_user" =>
           \A p \in PresentedToWrites, d \in StoreAdminUserCreates :
              (DuplicateAdmin(d) /\ AuthenticatedSuperadmin(p) /\ create_new_admin_user(p, {d}))
                 => (resp'.status = 400 /\ UNCHANGED store)]_vars

C9_Witness ==
    /\ resp.op = "register_client" /\ resp.status = 400 /\ resp.detail = "email registered"
    /\ clients # {}

\* C10: duplicate registration is rejected with 400 under concurrency: of two
\* concurrent POST /register with the same username or the same contact_email
\* at most one creates a client and the other is answered 400, never 5xx.
C10_ConcurrentDuplicateIs400 ==
    \A i, j \in DOMAIN reqs :
       (/\ i # j
        /\ reqs[i].pc = "done" /\ reqs[j].pc = "done"
        /\ \/ reqs[i].body.username = reqs[j].body.username
           \/ reqs[i].body.contact_email = reqs[j].body.contact_email
        /\ reqs[i].body.subscription_type_id \in sub_types
        /\ reqs[j].body.subscription_type_id \in sub_types)
          => /\ ~(reqs[i].status = 201 /\ reqs[j].status = 201)
             /\ reqs[i].status \in {201, 400} /\ reqs[j].status \in {201, 400}

\* C11: usernames and emails are unique in every reachable state: no two
\* clients share a username or a contact_email and no two admins share a
\* username or an email, whatever registrations, admin creates, admin PUTs
\* of username or contact_email and deletes went before.
C11_UsernamesEmailsUnique ==
    /\ \A a, b \in clients :
          a # b => (a.id # b.id /\ a.username # b.username
                                /\ a.contact_email # b.contact_email)
    /\ \A a, b \in admins :
          a # b => (a.id # b.id /\ a.username # b.username /\ a.email # b.email)

C11_Witness ==
    /\ resp.op = "update_existing_client_api" /\ resp.status = 500
    /\ Cardinality(clients) = 2
    /\ Cardinality(admins) = 2

\* C12: every client references a valid SubscriptionType in every reachable
\* state: each stored client's subscription_type_id is the id of a row of
\* subscription_types, also after DELETE of a type that clients reference and
\* after PUT of a client with an arbitrary subscription_type_id.
C12_ClientReferencesSubscriptionType ==
    \A c \in clients : get_subscription_type_by_id(sub_types, c.subscription_type_id) # {}

C12_Witness ==
    /\ resp.op = "delete_existing_subscription_type_api" /\ resp.status = 500
    /\ \E c \in clients : c.subscription_type_id = 1

\* ids the sequence of a table has handed out whose row is gone
DeletedIds(rows, next_id) == {i \in 1..(next_id - 1) : \A r \in rows : r.id # i}

\* C13: deleting an existing resource returns 204 and a subsequent GET of the
\* same id returns 404: an authenticated admin DELETE of a subscription type,
\* client, blog post or future plan that is in the store answers 204 and
\* removes the row (also a subscription type that clients still reference),
\* and an id whose row is gone stays gone, so GET by it answers 404.
C13_DeleteExistingIs204 ==
    [][/\ resp'.op = "delete_existing_subscription_type_api" =>
           \A p \in CrudPresented, i \in sub_types :
              (AuthenticatedAdmin(p) /\ delete_existing_subscription_type_api(p, i))
                 => (resp'.status = 204 /\ i \notin sub_types')
       /\ resp'.op = "delete_existing_client_api" =>
           \A p \in CrudPresented, c \in clients :
              (AuthenticatedAdmin(p) /\ delete_existing_client_api(p, c.id))
                 => (resp'.status = 204 /\ get_client_by_id(clients', c.id) = {})
       /\ resp'.op = "delete_existing_blog_post_api" =>
           \A p \in CrudPresented, r \in blog_posts :
              (AuthenticatedAdmin(p) /\ delete_existing_blog_post_api(p, r.id))
                 => (resp'.status = 204 /\ get_blog_post_by_id(blog_posts', r.id) = {})
       /\ resp'.op = "delete_existing_future_plan_api" =>
           \A p \in CrudPresented, r \in future_plans :
              (AuthenticatedAdmin(p) /\ delete_existing_future_plan_api(p, r.id))
                 => (resp'.status = 204 /\ get_future_plan_by_id(future_plans', r.id) = {})
       /\ (1..(next_sub_type_id - 1)) \ sub_types \subseteq (1..(next_sub_type_id' - 1)) \ sub_types'
       /\ DeletedIds(clients, next_client_id) \subseteq DeletedIds(clients', next_client_id')
       /\ DeletedIds(blog_posts, next_post_id) \subseteq DeletedIds(blog_posts', next_post_id')
       /\ DeletedIds(future_plans, next_plan_id) \subseteq DeletedIds(future_plans', next_plan_id')
       /\ (resp'.op = "get_client_by_id_api" /\ resp'.status = 200)
             => resp'.id \notin DeletedIds(clients, next_client_id)
       /\ (resp'.op = "get_blog_post_by_id_api" /\ resp'.status = 200)
             => resp'.id \notin DeletedIds(blog_posts, next_post_id)
       /\ (resp'.op = "get_subscription_type_by_id_api" /\ resp'.status = 200)
             => resp'.id \in sub_types]_vars

NotFoundUnchanged == resp'.status = 404 /\ UNCHANGED <<store, content>>

\* C14: deleting, updating or fetching a non-existent resource returns 404
\* and changes nothing: an authenticated admin DELETE, PUT or GET of an id
\* that is not in the store, for subscription types, clients, blog posts and
\* future plans, answers 404 and leaves every table as it was.
C14_MissingIs404 ==
    [][/\ resp'.op \in {"get_subscription_type_by_id_api", "update_existing_subscription_type_api",
                        "delete_existing_subscription_type_api"} =>
           \A p \in CrudPresented, i \in CrudSubTypeIds \ sub_types :
              AuthenticatedAdmin(p) =>
                 /\ get_subscription_type_by_id_api(p, i) => NotFoundUnchanged
                 /\ update_existing_subscription_type_api(p, i, SubscriptionTypeUpdates)
                       => NotFoundUnchanged
                 /\ delete_existing_subscription_type_api(p, i) => NotFoundUnchanged
       /\ resp'.op \in {"get_client_by_id_api", "update_existing_client_api",
                        "delete_existing_client_api"} =>
           \A p \in CrudPresented, i \in ClientIds \ {c.id : c \in clients} :
              AuthenticatedAdmin(p) =>
                 /\ get_client_by_id_api(p, i) => NotFoundUnchanged
                 /\ update_existing_client_api(p, i, CrudClientUpdates) => NotFoundUnchanged
                 /\ delete_existing_client_api(p, i) => NotFoundUnchanged
       /\ resp'.op \in {"get_blog_post_by_id_api", "update_existing_blog_post_api",
                        "delete_existing_blog_post_api"} =>
           \A p \in CrudPresented, i \in PostIds \ {r.id : r \in blog_posts} :
              AuthenticatedAdmin(p) =>
                 /\ get_blog_post_by_id_api(p, i) => NotFoundUnchanged
                 /\ update_existing_blog_post_api(p, i, BlogPostUpdates) => NotFoundUnchanged
                 /\ delete_existing_blog_post_api(p, i) => NotFoundUnchanged
       /\ resp'.op \in {"get_future_plan_by_id_api", "update_existing_future_plan_api",
                        "delete_existing_future_plan_api"} =>
           \A p \in CrudPresented, i \in PlanIds \ {r.id : r \in future_plans} :
              AuthenticatedAdmin(p) =>
                 /\ get_future_plan_by_id_api(p, i) => NotFoundUnchanged
                 /\ update_existing_future_plan_api(p, i, FuturePlanUpdates) => NotFoundUnchanged
                 /\ delete_existing_future_plan_api(p, i) => NotFoundUnchanged]_vars

C14_Witness ==
    /\ resp.op = "delete_existing_blog_post_api" /\ resp.status = 404
    /\ blog_posts # {}
    /\ resp.sub = "admin" /\ ~resp.failed

BadClientCredentials(u, pw) ==
    \A c \in clients : c.username = u => ~verify_password(pw, c.hashed_password)

BadAdminCredentials(u, pw) ==
    \A a \in admins : a.username = u => ~verify_password(pw, a.hashed_password)

Refused401 ==
    /\ resp'.status = 401 /\ resp'.detail = "bad credentials"
    /\ tokens' = tokens
    /\ UNCHANGED <<store, content>>

\* C15: bad credentials yield 401 and no token: POST /token and
\* POST /admin/token with an unknown username or with a password that does not
\* verify against the stored hash answer 401 with one and the same detail,
\* issue no token and leave the store unchanged.
C15_BadCredentialsRefused ==
    [][/\ resp'.op = "login_for_access_token" =>
           \A u \in Usernames, pw \in Passwords :
              (BadClientCredentials(u, pw) /\ login_for_access_token(u, pw)) => Refused401
       /\ resp'.op = "admin_login_for_access_token" =>
           \A u \in Usernames, pw \in Passwords :
              (BadAdminCredentials(u, pw) /\ admin_login_for_access_token(u, pw)) => Refused401]_vars

\* a refused POST /token while every username is registered: the password was wrong
C15_Witness ==
    /\ resp.op = "login_for_access_token" /\ resp.status = 401
    /\ \A u \in Usernames : \E c \in clients : c.username = u
    /\ tokens = {}

\* C16: only superadmins create admins: POST /api/admin/admin_users/ by a
\* request authenticated as an admin whose is_superadmin is false answers 403
\* and creates nothing, and every change of table admin_users is made by a
\* POST /api/admin/admin_users/ authenticated as a superadmin.
C16_OnlySuperadminsCreateAdmins ==
    [][/\ resp'.op = "create_new_admin_user" =>
           \A p \in PresentedToWrites :
              (/\ AuthenticatedAdmin(p) /\ ~AuthenticatedSuperadmin(p)
               /\ create_new_admin_user(p, StoreAdminUserCreates))
                 => (resp'.status = 403 /\ UNCHANGED <<store, content>>)
       /\ admins' # admins =>
           \E p \in PresentedToWrites :
              /\ AuthenticatedSuperadmin(p)
              /\ create_new_admin_user(p, StoreAdminUserCreates)]_vars

C16_Witness ==
    /\ resp.op = "create_new_admin_user" /\ resp.status = 403
    /\ \E a \in admins : a.id = resp.pid /\ ~a.is_superadmin /\ a.is_active

\* The handlers of main.py under /api/admin/ that SpecCrud runs.
CrudAdminOps ==
    {"get_client_by_id_api", "update_existing_client_api", "delete_existing_client_api",
     "get_subscription_type_by_id_api", "create_new_subscription_type_api",
     "update_existing_subscription_type_api", "delete_existing_subscription_type_api",
     "create_new_blog_post_api", "get_blog_post_by_id_api",
     "update_existing_blog_post_api", "delete_existing_blog_post_api",
     "create_new_future_plan_api", "get_future_plan_by_id_api",
     "update_existing_future_plan_api", "delete_existing_future_plan_api"}

\* The request answered by this step carried a token that verifies, is not
\* expired and names in sub an active row of admin_users.
ResolvesToActiveAdmin ==
    /\ ~resp'.failed
    /\ \E a \in admins : a.username = resp'.sub /\ a.is_active

C18_SessionReleased ==
    \A i \in DOMAIN sessions :
       /\ sessions[i].pc = "done" => (sessions[i].session # 0 /\ sessions[i].closed)
       /\ sessions[i].pc \in {"dependency", "handler"} =>
             (sessions[i].session # 0 /\ ~sessions[i].closed)
       /\ \A j \in DOMAIN sessions :
             (i # j /\ sessions[i].session # 0) => sessions[i].session # sessions[j].session

C18_Witness ==
    \E i, j \in DOMAIN sessions :
       /\ sessions[i].pc = "done" /\ sessions[i].status = 200 /\ sessions[i].uses = 2
       /\ sessions[j].pc = "done" /\ sessions[j].status = 500
       /\ sessions[i].closed /\ sessions[j].closed
       /\ sessions[j].session < sessions[i].session

\* C19: token verification has no side effects: a request that only resolves
\* its token (GET /api/client/me, GET /api/admin/me), whether the resolver
\* returns a row or fails, and any request refused by a resolver with 401,
\* leaves the tables, the tokens in circulation, the clock and every other
\* variable but the response unchanged.
C19_VerificationHasNoSideEffects ==
    [][(\/ resp'.op \in {"read_client_me", "read_admin_me"}
        \/ resp'.op \in AdminGuardedOps /\ resp'.status = 401)
          => UNCHANGED <<store, content, tokens, now, reqs, sessions, calc, page>>]_vars

C19_Witness ==
    /\ resp.op = "read_admin_me" /\ resp.status = 200 /\ resp.role = "admin"
    /\ \E t \in tokens : t.role = "admin" /\ t.pid = resp.pid
    /\ clients # {}

AcceptedByAdmin(t) == get_current_admin_user_required(t.tok, admins, now).status = 200
AcceptedByClient(t) == get_current_client_required(t.tok, clients, now).status = 200

\* the row the login issued the token for is in its table and active
PrincipalPresentActive(t) ==
    IF t.role = "client" THEN \E c \in clients : c.id = t.pid /\ c.is_active
    ELSE \E a \in admins : a.id = t.pid /\ a.is_active

\* C20: tokens are stateless: over any step (a later login of the same or of
\* another principal, a request, a write, time passing) a token handed out
\* by a login that a resolver accepted before the step is accepted by it
\* after the step, if it has not expired and its principal is still present
\* and active; a token that has expired is accepted by no resolver, whatever
\* logins happened since; and no step takes a token out of circulation.
C20_TokensStateless ==
    [][\A t \in tokens :
          /\ (AcceptedByAdmin(t) /\ ~Expired(t.tok, now') /\ PrincipalPresentActive(t)')
                => AcceptedByAdmin(t)'
          /\ (AcceptedByClient(t) /\ ~Expired(t.tok, now') /\ PrincipalPresentActive(t)')
                => AcceptedByClient(t)'
          /\ Expired(t.tok, now') => (~AcceptedByAdmin(t)' /\ ~AcceptedByClient(t)')
          /\ t \in tokens']_vars

C20_Witness ==
    /\ resp.op = "read_admin_me" /\ resp.status = 200 /\ resp.role = "admin"
    /\ \E t0, t1 \in tokens :
          /\ t0.role = "admin" /\ t1.role = "admin" /\ t0.pid = t1.pid /\ t0.pid = resp.pid
          /\ t0.tok.exp < t1.tok.exp
          /\ now = t0.tok.exp

\* C21: hashing the same password twice yields two different stored hashes,
\* both of which verify against the original password, and verify_password
\* of any different password against either hash returns false.
C21_HashesDifferAndVerify ==
    /\ (calc.fn \in {"get_password_hash", "verify_password"} /\ Len(calc.hashes) = 2)
          => calc.hashes[1] # calc.hashes[2]
    /\ calc.fn = "verify_password"
          => (calc.result <=> calc.plain_password = calc.password)

\* C22: create_access_token sets exp to the issue time plus expires_delta
\* for every expires_delta the caller supplies, a zero delta included, and to
\* the issue time plus ACCESS_TOKEN_EXPIRE_MINUTES only when none is
\* supplied; the token carries the claims of the input dictionary.
C22_ExpiryIsIssueTimePlusDelta ==
    calc.fn = "create_access_token" =>
       /\ calc.token.exp =
             IF calc.expires_delta.given THEN calc.issued_at + calc.expires_delta.minutes
             ELSE calc.issued_at + ACCESS_TOKEN_EXPIRE_MINUTES
       /\ calc.token.sub = calc.data.sub /\ calc.token.is_admin = calc.data.is_admin

\* C23: login by a soft-disabled client is rejected: POST /token with the
\* username and password of a client whose is_active is false answers 401
\* and issues no token, so every 200 of POST /token is for an active client.
C23_InactiveClientLoginRefused ==
    (resp.op = "login_for_access_token" /\ resp.status = 200)
        => \E c \in clients : c.id = resp.id /\ c.is_active

\* what POST /register and POST /api/admin/clients/ answer to a body whose
\* subscription_type_id is not in the store
UnknownTypeRefused(d) ==
    /\ resp'.status = 400
    /\ UNCHANGED <<store, content>>
    /\ resp'.detail = IF \E c \in clients : c.username = d.username THEN "username registered"
                      ELSE IF \E c \in clients : c.contact_email = d.contact_email
                      THEN "email registered"
                      ELSE "bad subscription type"

\* C24: registration with an unknown subscription type is rejected: POST
\* /register and POST /api/admin/clients/ (by an authenticated admin) whose
\* subscription_type_id is not the id of a stored subscription type answer
\* 400 and create no client; a body that is a duplicate as well is answered
\* with the duplicate's message, the username before the email.
C24_UnknownSubscriptionTypeRejected ==
    [][/\ resp'.op = "register_client" =>
           \A d \in StoreClientCreates, salt \in Salts :
              (d.subscription_type_id \notin sub_types /\ register_client(d, salt))
                 => UnknownTypeRefused(d)
       /\ resp'.op = "create_client_by_admin" =>
           \A p \in PresentedToWrites, d \in StoreClientCreates :
              (/\ d.subscription_type_id \notin sub_types
               /\ AuthenticatedAdmin(p)
               /\ create_client_by_admin(p, {d}))
                 => UnknownTypeRefused(d)]_vars

C24_Witness ==
    /\ resp.op = "create_client_by_admin" /\ resp.status = 400
    /\ resp.detail = "bad subscription type"
    /\ clients # {}

ExpectedBlogPost(r, u) ==
    [BlogPostResponse(r) EXCEPT
       !.title = IF "title" \in u.set THEN u.title ELSE @,
       !.is_published = IF "is_published" \in u.set THEN u.is_published ELSE @,
       !.tags = IF "tags" \in u.set THEN u.tags ELSE @]

ExpectedFuturePlan(r, u) ==
    [r EXCEPT !.title = IF "title" \in u.set THEN u.title ELSE @,
              !.is_active = IF "is_active" \in u.set THEN u.is_active ELSE @]

\* C25: an update changes only the fields the request supplies: after a PUT
\* answered 200 on a client, a subscription type, a blog post or a future
\* plan, the record read back has the supplied value in every field the
\* body set and its previous value in every other field, and every other
\* record and table is as before.
C25_UpdateChangesOnlySuppliedFields ==
    [][/\ (resp'.op = "update_existing_client_api" /\ resp'.status = 200) =>
           \A p \in CrudPresented, i \in ClientIds, u \in CrudClientUpdates :
              update_existing_client_api(p, i, {u}) =>
                 /\ \E c \in clients :
                       /\ c.id = i
                       /\ clients' = (clients \ {c}) \cup
                             {[c EXCEPT !.subscription_type_id =
                                  IF "subscription_type_id" \in u.set
                                  THEN u.subscription_type_id ELSE @]}
                 /\ UNCHANGED <<admins, sub_types, content>>
       /\ (resp'.op = "update_existing_subscription_type_api" /\ resp'.status = 200) =>
           \A p \in CrudPresented, i \in CrudSubTypeIds, u \in SubscriptionTypeUpdates :
              update_existing_subscription_type_api(p, i, {u}) =>
                 /\ sub_type_names' = [sub_type_names EXCEPT ![i] =
                                          IF "name" \in u.set THEN u.name ELSE @]
                 /\ UNCHANGED <<store, blog_posts, future_plans>>
       /\ (resp'.op = "update_existing_blog_post_api" /\ resp'.status = 200) =>
           \A p \in CrudPresented, i \in PostIds, u \in BlogPostUpdates :
              update_existing_blog_post_api(p, i, {u}) =>
                 /\ \E r \in blog_posts :
                       /\ r.id = i
                       /\ {BlogPostResponse(x) : x \in blog_posts'} =
                             {BlogPostResponse(x) : x \in blog_posts \ {r}}
                                \cup {ExpectedBlogPost(r, u)}
                 /\ UNCHANGED <<store, sub_type_names, future_plans>>
       /\ (resp'.op = "update_existing_future_plan_api" /\ resp'.status = 200) =>
           \A p \in CrudPresented, i \in PlanIds, u \in FuturePlanUpdates :
              update_existing_future_plan_api(p, i, {u}) =>
                 /\ \E r \in future_plans :
                       /\ r.id = i
                       /\ future_plans' = (future_plans \ {r}) \cup {ExpectedFuturePlan(r, u)}
                 /\ UNCHANGED <<store, sub_type_names, blog_posts>>]_vars

\* C26: stored hashes track the current password: when an admin PUT on a
\* client with a new password is answered 200, the stored hashed_password is
\* a hash of the new password, POST /token succeeds with the new password
\* and every other password that was accepted before is refused.
C26_HashTracksCurrentPassword ==
    [][(resp'.op = "update_existing_client_api" /\ resp'.status = 200) =>
          \A p \in CrudPresented, i \in ClientIds, u \in PasswordClientUpdates :
             update_existing_client_api(p, i, {u}) =>
                \E c \in clients, updated \in clients' :
                   /\ c.id = i /\ updated.id = i
                   /\ \E salt \in Salts :
                         updated.hashed_password = get_password_hash(u.password, salt)
                   /\ authenticate_client_user(clients', updated.username, u.password) # {}
                   /\ \A old \in CalcPasswords \ {u.password} :
                         verify_password(old, c.hashed_password)
                            => authenticate_client_user(clients', updated.username, old) = {}]_vars

\* C27: a successful registration creates exactly one client with a fresh
\* client_db_id: a POST /register that passes the three checks (username and
\* email not taken, subscription type stored) answers 201 and adds exactly
\* one client, whose client_db_id no other client has, and POST /token with
\* the registered username and password then succeeds; the client_db_id
\* values of the store are pairwise distinct.
C27_RegistrationCreatesOneClient ==
    [][resp'.op = "register_client" =>
          \A d \in RegisterClientCreates, salt \in Salts :
             (/\ ~DuplicateClient(d)
              /\ d.subscription_type_id \in sub_types
              /\ register_client(d, salt))
                => /\ resp'.status = 201
                   /\ \E c \in clients' \ clients :
                         /\ clients' = clients \cup {c}
                         /\ c.username = d.username
                         /\ \A x \in clients : x.client_db_id # c.client_db_id
                   /\ authenticate_client_user(clients', d.username, d.password) # {}
                   /\ \A a, b \in clients' : a.id # b.id => a.client_db_id # b.client_db_id]_vars

\* C28: a created principal is stored with the is_active value of the create
\* request: the row added by a POST /register, POST /api/admin/clients/ or
\* POST /api/admin/admin_users/ answered 201 has the is_active of the body.
C28_CreatedWithGivenIsActive ==
    [][/\ (resp'.op = "register_client" /\ resp'.status = 201) =>
           \A d \in RegisterClientCreates, salt \in Salts :
              register_client(d, salt) =>
                 \A c \in clients' \ clients : c.is_active = d.is_active
       /\ (resp'.op = "create_client_by_admin" /\ resp'.status = 201) =>
           \A p \in CrudPresented, d \in RegisterClientCreates :
              create_client_by_admin(p, {d}) =>
                 \A c \in clients' \ clients : c.is_active = d.is_active
       /\ (resp'.op = "create_new_admin_user" /\ resp'.status = 201) =>
           \A p \in CrudPresented, d \in RegisterAdminUserCreates :
              create_new_admin_user(p, {d}) =>
                 \A a \in admins' \ admins : a.is_active = d.is_active]_vars

\* C29: unpublished and inactive content is never publicly visible: /blogs
\* lists only stored posts with is_published = true and /future-plans only
\* stored plans with is_active = true, and /blogs/{id} or /future-plans/{id}
\* of a stored but unpublished post or inactive plan answers 404 with the
\* detail it gives for an id that is not stored.
C29_HiddenContentNotPublic ==
    [][/\ blogs_page =>
             /\ page'.status = 200 /\ page'.rows \subseteq blog_posts
             /\ \A r \in page'.rows : r.is_published
       /\ future_plans_page =>
             /\ page'.status = 200 /\ page'.rows \subseteq future_plans
             /\ \A r \in page'.rows : r.is_active
       /\ \A i \in PostIds :
             (blog_post_detail_page(i) /\ \A r \in blog_posts : r.id = i => ~r.is_published)
                => /\ page'.status = 404 /\ page'.rows = {}
                   /\ page'.detail = "Blog post not found or not published"
       /\ \A i \in PlanIds :
             (future_plan_detail_page(i) /\ \A r \in future_plans : r.id = i => ~r.is_active)
                => /\ page'.status = 404 /\ page'.rows = {}
                   /\ page'.detail = "Future plan not found or not active"]_vars

\* a visitor has asked for a stored unpublished post while another post is
\* published, or has listed the blog while an unpublished post is stored
C29_Witness ==
    /\ \E r \in blog_posts : ~r.is_published
    /\ \E r \in blog_posts : r.is_published
    /\ \E r \in future_plans : ~r.is_active
    /\ \/ /\ page.op = "blog_post_detail_page" /\ page.status = 404
          /\ \E r \in blog_posts : r.id = page.id /\ ~r.is_published
       \/ /\ page.op = "blogs_page" /\ page.rows # {} /\ page.rows # blog_posts

\* C30: a created resource can be read back until it is deleted: for
\* subscription types, blog posts and future plans an authenticated admin
\* POST with valid fields answers 201 and stores one new record with a fresh
\* id, a GET by the id of a stored record answers 200 with the field values
\* it was created with, a record leaves its table only by a DELETE answered
\* 204, and a blog post's author_id is the id of the admin who created it and
\* no update changes it.
C30_CreatedCanBeReadBack ==
    [][/\ resp'.op = "create_new_subscription_type_api" =>
           \A p \in CrudPresented, d \in SubscriptionTypeCreates :
              (/\ AuthenticatedAdmin(p)
               /\ ~SubTypeNameTaken(sub_type_names, d.name, 0)
               /\ create_new_subscription_type_api(p, {d}))
                 => /\ resp'.status = 201
                    /\ sub_types' = sub_types \cup {resp'.id}
                    /\ resp'.id \notin 1..(next_sub_type_id - 1)
                    /\ sub_type_names'[resp'.id] = d.name
       /\ resp'.op = "create_new_blog_post_api" =>
           \A p \in CrudPresented, d \in CrudBlogPostCreates :
              (/\ AuthenticatedAdmin(p)
               /\ \A r \in blog_posts : r.title # d.title
               /\ create_new_blog_post_api(p, {d}))
                 => /\ resp'.status = 201
                    /\ \E r \in blog_posts' \ blog_posts :
                          /\ blog_posts' = blog_posts \cup {r}
                          /\ r.id = resp'.id /\ r.id \notin 1..(next_post_id - 1)
                          /\ r.author_id = get_current_admin_user_required(p.tok, admins, now).id
                          /\ BlogPostResponse(r).title = d.title
                          /\ BlogPostResponse(r).is_published = d.is_published
                          /\ BlogPostResponse(r).tags = d.tags
       /\ resp'.op = "create_new_future_plan_api" =>
           \A p \in CrudPresented :
              (AuthenticatedAdmin(p) /\ create_new_future_plan_api(p))
                 => /\ resp'.status = 201
                    /\ \E r \in future_plans' \ future_plans :
                          /\ future_plans' = future_plans \cup {r}
                          /\ r.id = resp'.id /\ r.id \notin 1..(next_plan_id - 1)
       /\ resp'.op = "get_subscription_type_by_id_api" =>
           \A p \in CrudPresented, i \in sub_types :
              (AuthenticatedAdmin(p) /\ get_subscription_type_by_id_api(p, i))
                 => (resp'.status = 200 /\ resp'.id = i)
       /\ resp'.op = "get_blog_post_by_id_api" =>
           \A p \in CrudPresented, r \in blog_posts :
              (AuthenticatedAdmin(p) /\ get_blog_post_by_id_api(p, r.id))
                 => (resp'.status = 200 /\ resp'.id = r.id)
       /\ resp'.op = "get_future_plan_by_id_api" =>
           \A p \in CrudPresented, r \in future_plans :
              (AuthenticatedAdmin(p) /\ get_future_plan_by_id_api(p, r.id))
                 => (resp'.status = 200 /\ resp'.id = r.id)
       /\ ~(sub_types \subseteq sub_types')
             => (resp'.op = "delete_existing_subscription_type_api" /\ resp'.status = 204)
       /\ ~({r.id : r \in blog_posts} \subseteq {r.id : r \in blog_posts'})
             => (resp'.op = "delete_existing_blog_post_api" /\ resp'.status = 204)
       /\ ~({r.id : r \in future_plans} \subseteq {r.id : r \in future_plans'})
             => (resp'.op = "delete_existing_future_plan_api" /\ resp'.status = 204)
       /\ \A r \in blog_posts, q \in blog_posts' : r.id = q.id => r.author_id = q.author_id]_vars

====
